---- MODULE Spec2Model ----
(***************************************************************************)
(* FlexSPI flash command sequencer and transfer engine of embassy-imxrt.  *)
(*                                                                         *)
(* Three engine variants share one controller register block:             *)
(*   "Ram"     FlexSpiCmdPort<Blocking, Ram> / FlexSpiDataPort<.., Ram>     *)
(*   "Xip"     FlexSpiCmdPort<Blocking, Xip> / FlexSpiDataPort<.., Xip>     *)
(*   "Storage" FlexspiStorage<Blocking>                                    *)
(*                                                                         *)
(* Every register access of the engine is one step of the calling         *)
(* execution context.  The controller is modelled by what the engine can  *)
(* observe of it: a triggered IP command stays in flight until the        *)
(* hardware completes it, completion sets the write-1-to-clear            *)
(* command-done bit of INTR, and a read command deposits its data in the   *)
(* RX FIFO.  LUT words are 32-bit registers holding two 16-bit            *)
(* instructions; they are kept as pairs <<instr0, instr1>>.                *)
(***************************************************************************)
EXTENDS Integers, Sequences, FiniteSets, TLC

\* ------------------------------------------------------------------ bounds
\* Largest number of status reads after which the simulated flash clears WIP.
MaxPolls == 3
\* Largest offset into the memory window used by reads, writes and erases.
MaxAddr == 1
\* Longest byte slice handed to write / read.
MaxLen == 2
\* Calls made in all when two contexts share the controller.
MaxCalls == 2
\* Bytes a device sends in answer to the long read-id sequence.
MaxIdBytes == 24

\* --------------------------------------------------------- program constants
LUT_NUM_REG_PER_SEQ == 4
LUT_KEY == 1525701360            \* 0x5AF05AF0
LUTCR_LOCK == 1
LUTCR_UNLOCK == 2
RxWatermark == 8
TxWatermark == 8
WRITE_SIZE == 256                \* of FlexSpiDataPort<Blocking, Ram>
FLASH_BASE == 134217728          \* 0x08000000

Variants == {"Ram", "Xip", "Storage"}
Cmds == {"ReadId", "WriteEnable", "ReadStatusRegister", "EraseSector", "PageProgram"}
IpCmds == Cmds \ {"PageProgram"}
Ctx == {1, 2}
Addrs == 0 .. MaxAddr
Bytes == {1, 2}
\* The byte slices handed to write: of every length up to MaxLen, alternating
\* the two byte values, starting with either.
ByteSeqs == {[k \in 1 .. n |-> ((k + b) % 2) + 1] : n \in 1 .. MaxLen, b \in 0 .. 1}

\* impl From<FlexSpiCmd> for usize
CmdIdx(cmd) ==
    CASE cmd = "ReadId" -> 1
      [] cmd = "WriteEnable" -> 3
      [] cmd = "ReadStatusRegister" -> 4
      [] cmd = "EraseSector" -> 6
      [] cmd = "PageProgram" -> 12

\* ------------------------------------------------------------ bit helpers
RECURSIVE BitOr(_, _)
BitOr(a, b) ==
    IF a = 0 THEN b
    ELSE IF b = 0 THEN a
    ELSE (IF (a % 2 = 1) \/ (b % 2 = 1) THEN 1 ELSE 0) + 2 * BitOr(a \div 2, b \div 2)

RECURSIVE BitAnd(_, _)
BitAnd(a, b) ==
    IF a = 0 \/ b = 0 THEN 0
    ELSE (IF (a % 2 = 1) /\ (b % 2 = 1) THEN 1 ELSE 0) + 2 * BitAnd(a \div 2, b \div 2)

\* ---------------------------------------------------- LUT instruction words
\* mimxrt600_fcb::FlexSpiLutOpcode
Opcode(name) ==
    CASE name = "STOP" -> 0
      [] name = "CMD_SDR" -> 1
      [] name = "READ_SDR" -> 9
      [] name = "CMD_DDR" -> 33
      [] name = "RADDR_DDR" -> 34
      [] name = "WRITE_DDR" -> 40
      [] name = "READ_DDR" -> 41
      [] name = "DUMMY_DDR" -> 44

\* mimxrt600_fcb::FlexSpiNumPads
NumPads(name) ==
    CASE name = "Single" -> 0
      [] name = "Octal" -> 3

\* One 16-bit LUT instruction: opcode[15:10] | pads[9:8] | operand[7:0].
LutInstr(op, pads, operand) == Opcode(op) * 1024 + NumPads(pads) * 256 + operand

\* mimxrt600_fcb::flexspi_lut_seq: instruction 0 in the low half-word,
\* instruction 1 in the high half-word of the 32-bit LUT register.
flexspi_lut_seq(op0, pads0, operand0, op1, pads1, operand1) ==
    <<LutInstr(op0, pads0, operand0), LutInstr(op1, pads1, operand1)>>

ZeroWord == <<0, 0>>
\* A word left in the LUT by an earlier owner that is no word of any program
\* of this engine.
StaleWord == <<65535, 65535>>

\* The four words each variant stores for a command; <<>> where the variant
\* stores none.
LutProgram(v, cmd) ==
    CASE cmd = "WriteEnable" /\ v \in {"Ram", "Xip"} ->
            <<flexspi_lut_seq("CMD_DDR", "Octal", 6, "CMD_DDR", "Octal", 249),
              ZeroWord, ZeroWord, ZeroWord>>
      [] cmd = "ReadStatusRegister" /\ v \in {"Ram", "Xip"} ->
            <<flexspi_lut_seq("CMD_DDR", "Octal", 5, "CMD_DDR", "Octal", 250),
              flexspi_lut_seq("RADDR_DDR", "Octal", 32, "DUMMY_DDR", "Octal", 24),
              flexspi_lut_seq("READ_DDR", "Octal", 1, "STOP", "Single", 0),
              ZeroWord>>
      [] cmd = "EraseSector" /\ v \in {"Ram", "Xip"} ->
            <<flexspi_lut_seq("CMD_DDR", "Octal", 33, "CMD_DDR", "Octal", 222),
              flexspi_lut_seq("RADDR_DDR", "Octal", 32, "STOP", "Single", 0),
              ZeroWord, ZeroWord>>
      [] cmd = "ReadId" /\ v = "Xip" ->
            <<flexspi_lut_seq("CMD_SDR", "Single", 159, "READ_SDR", "Single", 4),
              ZeroWord, ZeroWord, ZeroWord>>
      [] cmd = "PageProgram" /\ v \in {"Xip", "Storage"} ->
            <<flexspi_lut_seq("CMD_DDR", "Octal", 18, "CMD_DDR", "Octal", 237),
              flexspi_lut_seq("RADDR_DDR", "Octal", 32, "WRITE_DDR", "Octal", 4),
              ZeroWord, ZeroWord>>
      [] OTHER -> <<>>

\* The LUT slot (sequence index) a variant's setup uses for a command.
SeqIdx(v, cmd) ==
    IF v = "Ram"
    THEN CASE cmd = "WriteEnable" -> 3
           [] cmd = "ReadStatusRegister" -> 1
           [] cmd = "EraseSector" -> 5
           [] cmd = "ReadId" -> 12
           [] OTHER -> 0
    ELSE CmdIdx(cmd)

\* ---------------------------------------------------------- register writes
\* One register access of the engine.  m is the kind of access:
\*   "store"  plain store of the whole register        (reg = v)
\*   "or"     read-modify-write setting bits of field f (reg |= v << f)
\*   "clr"    read-modify-write clearing field f        (reg &= !(mask << f))
\*   "pac"    svd2rust `write`: the register becomes its reset value with
\*            field f set to v
\*   "w1c"    svd2rust `write` of a write-1-to-clear status bit f
W(r, m, f, i, v) == [r |-> r, m |-> m, f |-> f, i |-> i, v |-> v, w |-> ZeroWord]
WLut(i, w) == [r |-> "LUT", m |-> "store", f |-> "", i |-> i, v |-> 0, w |-> w]

\* The four LUT stores of a program into slot idx (none for an empty program).
\* A build that left the last word of the slot alone.
LutStoresShort(idx, prog) ==
    [k \in 1 .. Len(prog) - 1 |-> WLut(idx * LUT_NUM_REG_PER_SEQ + (k - 1), prog[k])]

LutStores(idx, prog) ==
    [k \in 1 .. Len(prog) |-> WLut(idx * LUT_NUM_REG_PER_SEQ + (k - 1), prog[k])]

\* FlexSpiCmdPort<M, Ram>::setup_cmd_transfer
SetupCmdTransfer(cmd, addr) ==
    <<W("LUTKEY", "pac", "key", 0, LUT_KEY),
      W("LUTCR", "pac", "unlock", 0, 1),
      W("IPCR0", "pac", "sfar", 0, addr)>>
    \o LutStores(SeqIdx("Ram", cmd), LutProgram("Ram", cmd))
    \o <<W("IPCR1", "pac", "iseqid", 0, SeqIdx("Ram", cmd)),
         W("FLSHCR2", "pac", "clrinstrptr", 3, 1),
         W("IPRXFCR", "pac", "rxdmaen", 0, 0),
         W("IPTXFCR", "pac", "txdmaen", 0, 0),
         W("IPRXFCR", "pac", "rxwmrk", 0, (RxWatermark \div 8) - 1),
         W("IPTXFCR", "pac", "txwmrk", 0, (TxWatermark \div 8) - 1),
         W("IPRXFCR", "pac", "clriprxf", 0, 1),
         W("IPTXFCR", "pac", "clriptxf", 0, 1)>>

\* FlexSpiCmdPort<Blocking, Xip>::setup_ip_transfer and
\* FlexspiStorage<Blocking>::setup_ip_transfer (which stores no LUT word).
SetupIpTransfer(v, cmd, addr) ==
    <<W("IPCR0", "store", "", 0, addr),
      W("IPCR1", "clr", "iseqid", 0, 31),
      W("LUTKEY", "store", "", 0, LUT_KEY),
      W("LUTCR", "store", "", 0, 2),
      W("FLSHCR2", "or", "clrinstrptr", 0, 1),
      W("FLSHCR2", "or", "clrinstrptr", 1, 1),
      W("FLSHCR2", "or", "clrinstrptr", 2, 1),
      W("FLSHCR2", "or", "clrinstrptr", 3, 1),
      W("IPCR1", "or", "iseqid", 0, CmdIdx(cmd))>>
    \o LutStores(CmdIdx(cmd), LutProgram(v, cmd))
    \o <<W("IPRXFCR", "clr", "rxdmaen", 0, 1),
         W("IPTXFCR", "clr", "txdmaen", 0, 1),
         W("IPRXFCR", "or", "clriprxf", 0, 1),
         W("IPTXFCR", "or", "clriptxf", 0, 1)>>

\* FlexSpiDataPort<Blocking, Xip>::setup_write_transfer and
\* FlexspiStorage<Blocking>::setup_write_transfer
SetupWriteTransfer(v) ==
    <<W("LUTKEY", "store", "", 0, LUT_KEY),
      W("LUTCR", "store", "", 0, 1),
      W("FLSHCR2", "clr", "awrseqid", 2, 31),
      W("FLSHCR2", "or", "awrseqid", 2, CmdIdx("PageProgram"))>>
    \o LutStores(CmdIdx("PageProgram"), LutProgram(v, "PageProgram"))

\* The register accesses of the setup step of a command in a variant.
SetupWrites(v, cmd, addr) ==
    IF cmd = "PageProgram" THEN SetupWriteTransfer(v)
    ELSE IF v = "Ram" THEN SetupCmdTransfer(cmd, addr)
    ELSE SetupIpTransfer(v, cmd, addr)

\* ------------------------------------------------------------------- state
VARIABLES
    variant,    \* which engine drives the controller
    nctx,       \* number of execution contexts that call the engine
    wipPolls,   \* the flash reports WIP = 0 on this status read after an erase
    reg,        \* controller registers written by the engine
    lut,        \* LUT store, by word index
    fifo,       \* IP RX FIFO: fill level (IPRXFSTS.FILL) and data words (RFDR)
    inflight,   \* the IP command the controller is executing, or NoCmd
    flash,      \* the flash device: status reads that still report WIP = 1
    mem,        \* flash contents seen through the memory window, by offset
    cx,         \* per execution context: position and locals of its call
    h,          \* history of the run, read only by the properties
    cfg         \* the configuration port: position, inputs and status bits

engineVars == <<variant, nctx, wipPolls, reg, lut, fifo, inflight, flash, mem, cx, h>>
vars == <<variant, nctx, wipPolls, reg, lut, fifo, inflight, flash, mem, cx, h, cfg>>

Slots == {1, 3, 4, 5, 6, 12}
LutIdx == UNION {{s * LUT_NUM_REG_PER_SEQ + k : k \in 0 .. 3} : s \in Slots}
SlotIdx(s) == {s * LUT_NUM_REG_PER_SEQ + k : k \in 0 .. 3}

NoCmd == [prog |-> <<>>, addr |-> 0, owner |-> 0]
NoWrite == [ctx |-> 0, r |-> "", i |-> 0, busy |-> FALSE, owner |-> 0, unlocked |-> TRUE]
NoBuild == [cmd |-> "none", lut |-> <<>>]
NoRt == [addr |-> 0, bytes |-> <<>>]
\* The flash array after an erase, and the word a device answers to ReadId.
ErasedMem == [a \in Addrs |-> 0]
IdWord == <<2, 0>>

\* The LUT as a configuration matching CmdIdx left it, and as an unrelated
\* earlier owner left it.
ProgrammedLut ==
    [i \in LutIdx |->
        IF \E c \in Cmds : i \in SlotIdx(CmdIdx(c))
        THEN LET c == CHOOSE c \in Cmds : i \in SlotIdx(CmdIdx(c))
             IN  LutProgram("Xip", c)[i - CmdIdx(c) * LUT_NUM_REG_PER_SEQ + 1]
        ELSE ZeroWord]
StaleLut == [i \in LutIdx |-> StaleWord]
\* The LUT as a RAM-mode bring-up left it for read_id: slot 12, the slot
\* setup_cmd_transfer selects for ReadId without storing a program, holds a
\* read-id program.
RamLut ==
    [i \in LutIdx |->
        IF i \in SlotIdx(SeqIdx("Ram", "ReadId"))
        THEN LutProgram("Xip", "ReadId")[i - SeqIdx("Ram", "ReadId") * LUT_NUM_REG_PER_SEQ + 1]
        ELSE ProgrammedLut[i]]

\* A read-id sequence that reads MaxIdBytes bytes of identification data, and
\* the LUT of a RAM-mode bring-up that left it in slot 12.
LongIdProgram ==
    <<flexspi_lut_seq("CMD_SDR", "Single", 159, "READ_SDR", "Single", MaxIdBytes),
      ZeroWord, ZeroWord, ZeroWord>>
LongIdLut ==
    [i \in LutIdx |->
        IF i \in SlotIdx(SeqIdx("Ram", "ReadId"))
        THEN LongIdProgram[i - SeqIdx("Ram", "ReadId") * LUT_NUM_REG_PER_SEQ + 1]
        ELSE ProgrammedLut[i]]

\* The words the RX FIFO holds after a device answered a read-id sequence
\* that reads n bytes: the identification words in arrival order, starting
\* with IdWord[1], in 64-bit entries (the last one padded with zero).
IdAnswer(n) ==
    [k \in 1 .. 2 * ((n + 7) \div 8) |->
        IF k <= (n + 3) \div 4 THEN IdWord[1] + (k - 1) ELSE 0]

\* The output array data with the words ws stored from position base on
\* (position 0 is data[1]); positions never stored hold the zero the caller
\* filled the array with.
StoreWords(data, base, ws) ==
    [k \in 1 .. (IF Len(data) > base + Len(ws) THEN Len(data) ELSE base + Len(ws)) |->
        IF k > base /\ k <= base + Len(ws) THEN ws[k - base]
        ELSE IF k <= Len(data) THEN data[k] ELSE 0]

IdleCx ==
    [pc |-> "idle", op |-> "none", cmd |-> "none", todo |-> <<>>, addr |-> 0,
     bytes |-> <<>>, buf |-> <<>>, size |-> 0, status |-> 0,
     wrote |-> FALSE, written |-> {}, lut0 |-> <<>>, obs |-> <<>>, nstat |-> 0,
     gate |-> FALSE, hits |-> {}, trig |-> 0, seen |-> FALSE, drained |-> FALSE,
     fail |-> "none", req |-> 0, pass |-> 0, data |-> <<>>]

\* FLSHCR2 after reset: the clear-instruction-pointer bit and the AHB fields
\* this driver writes (write and read sequence id, read sequence count,
\* write-wait unit).
Flshcr2Reset ==
    [clrinstrptr |-> 0, awrseqid |-> 0, ardseqid |-> 0, ardseqnum |-> 0,
     awrwaitunit |-> 0]

ResetReg ==
    [IPCR0 |-> 0, IPCR1 |-> 0, LUTKEY |-> LUT_KEY, LUTCR |-> LUTCR_UNLOCK,
     FLSHCR2 |-> [i \in 0 .. 3 |-> Flshcr2Reset],
     IPRXFCR |-> [rxdmaen |-> 0, rxwmrk |-> 0],
     IPTXFCR |-> [txdmaen |-> 0, txwmrk |-> 0],
     INTR |-> [ipcmddone |-> 0, iprxwa |-> 0, ipcmdge |-> 0, ipcmderr |-> 0,
               seqtimeout |-> 0]]

\* Registers as an earlier owner may have left them: LUT locked, DMA enabled.
UsedReg ==
    [ResetReg EXCEPT !.LUTCR = LUTCR_LOCK,
                     !.IPRXFCR = [rxdmaen |-> 1, rxwmrk |-> 3],
                     !.IPTXFCR = [txdmaen |-> 1, txwmrk |-> 3]]

\* ------------------------------------------------------ configuration port
\* FlexspiReadSampleClock
Modes == {"LoopbackInternally", "LoopbackFromDqsPad", "LoopbackFromSckPad",
          "ExternalInputFromDqsPad"}
Ports == {"A", "B"}
\* Root clock frequencies below, at and above the DLL threshold.
RootClks == {48000000, 99999999, 100000000, 200000000}
\* data_valid_time is a u8.
U8Max == 255
DllClkThreshold == 100000000
DelayCellUnit == 75

\* calc_dll_value: the match on rx_sample_clock.
IsUnifiedLoopbackOnly(mode, sck2) == mode \in {"LoopbackInternally", "LoopbackFromDqsPad"}

IsUnifiedInverted(mode, sck2) ==
    IF mode = "ExternalInputFromDqsPad" THEN ~sck2 ELSE TRUE

is_unified_config(mode, sck2) ==
    IF mode = "ExternalInputFromDqsPad" THEN sck2 ELSE TRUE

\* A threshold test that left the boundary frequency to the slow branch.
FastRootClkStrict(clk) == clk > DllClkThreshold

\* device_config.flexspi_root_clk >= 100000000
FastRootClk(clk) == clk >= DllClkThreshold

\* calc_dll_value: dll_value, the delay cells for data_valid_time (ns).
dll_value(dvt) ==
    LET temp == dvt * 1000
        q == temp \div DelayCellUnit
    IN  IF q * DelayCellUnit < temp THEN q + 1 ELSE q

\* An override field that kept the six low bits of the delay-cell count.
OverrideSixBits(cells) == BitOr(256, BitAnd(cells, 63) * 512)

\* 0x1 << 8 | (dll_value & 0x78) << 9
Override(cells) == BitOr(256, BitAnd(cells, 120) * 512)

calc_dll_value(mode, sck2, clk, dvt) ==
    IF is_unified_config(mode, sck2) THEN 256
    ELSE IF FastRootClk(clk) THEN BitOr(1, 15 * 8)
    ELSE Override(dll_value(dvt))

\* One register access of configure_flexspi_device.
CW(r, f) == [r |-> r, f |-> f]

DeviceWritesEnableFirst(port, inst, ard) ==
    <<CW("MCR0", "mdis"), CW("FLSHCR4", "wmopt1"), CW("DLLCR", port)>>

\* The register writes of configure_flexspi_device between the idle wait and
\* the DLL-lock wait, in program order.
DeviceWrites(port, inst, ard) ==
    <<CW("FLSHCR4", "wmopt1"),
      CW("DLLCR", port),
      CW("FLSHCR4", IF port = "A" THEN "wmena" ELSE "wmenb"),
      CW("FLSHCR0", "flshsz"),
      CW("FLSHCR1", "cs"),
      CW("FLSHCR1", "csintervalunit"),
      CW("FLSHCR2", "awrwaitunit")>>
    \o (IF ard > 0 THEN <<CW("FLSHCR2", "ardseq")>> ELSE <<>>)
    \o <<CW("MCR0", "mdis")>>

NoLock == [p \in Ports |-> 0]

\* ------------------------------------------------ configuration registers
\* FlexSpiFlashPort x FlexSpiFlashPortDeviceInstance: the four banks of
\* flash-control registers (A1, A2, B1, B2).
Banks == {<<p, i>> : p \in Ports, i \in {0, 1}}
Buffers == 0 .. 7
Bit(b) == IF b THEN 1 ELSE 0

\* The configuration registers after the peripheral reset of
\* enable_and_reset, by field.
CtlReset ==
    [MCR0 |-> [mdis |-> 1, swreset |-> 0, rxclksrc |-> 0, dozeen |-> 0,
               sckfreerunen |-> 0, hsen |-> 0],
     MCR1 |-> [ahbbuswait |-> 65535, seqwait |-> 65535],
     MCR2 |-> [samedeviceen |-> 1, resumewait |-> 32, sckbdiffopt |-> 0,
               clrahbbufopt |-> 0],
     AHBCR |-> [readaddropt |-> 0, prefetchen |-> 0, bufferableen |-> 1,
                cachableen |-> 1],
     AHBRXBUFCR0 |-> [i \in Buffers |->
                        [mstrid |-> 0, prefetchen |-> 1, bufsz |-> 32, priority |-> 0]],
     FLSHCR0 |-> [b \in Banks |-> [flshsz |-> 65536]],
     FLSHCR1 |-> [b \in Banks |->
                    [csinterval |-> 0, tcsh |-> 3, tcss |-> 3, cas |-> 0, wa |-> 0,
                     csintervalunit |-> 0]],
     FLSHCR2 |-> [b \in Banks |-> [awrwaitunit |-> 0, ardseqnum |-> 0, ardseqid |-> 0]],
     FLSHCR4 |-> [wmopt1 |-> 0, wmena |-> 0, wmenb |-> 0],
     DLLCR |-> [p \in Ports |-> [bits |-> 256]]]

\* The configuration registers as an earlier owner (the boot ROM) may have
\* left them: module enabled, every field away from its reset value.
CtlUsed ==
    [MCR0 |-> [mdis |-> 0, swreset |-> 0, rxclksrc |-> 1, dozeen |-> 1,
               sckfreerunen |-> 1, hsen |-> 1],
     MCR1 |-> [ahbbuswait |-> 7, seqwait |-> 7],
     MCR2 |-> [samedeviceen |-> 0, resumewait |-> 7, sckbdiffopt |-> 1,
               clrahbbufopt |-> 1],
     AHBCR |-> [readaddropt |-> 1, prefetchen |-> 1, bufferableen |-> 0,
                cachableen |-> 0],
     AHBRXBUFCR0 |-> [i \in Buffers |->
                        [mstrid |-> 7, prefetchen |-> 0, bufsz |-> 7, priority |-> 7]],
     FLSHCR0 |-> [b \in Banks |-> [flshsz |-> 7]],
     FLSHCR1 |-> [b \in Banks |->
                    [csinterval |-> 7, tcsh |-> 7, tcss |-> 7, cas |-> 7, wa |-> 1,
                     csintervalunit |-> 1]],
     FLSHCR2 |-> [b \in Banks |-> [awrwaitunit |-> 7, ardseqnum |-> 7, ardseqid |-> 7]],
     FLSHCR4 |-> [wmopt1 |-> 1, wmena |-> 1, wmenb |-> 1],
     DLLCR |-> [p \in Ports |-> [bits |-> 7]]]

\* Registers that exist once per buffer, per bank or per port.
Indexed == {"AHBRXBUFCR0", "FLSHCR0", "FLSHCR1", "FLSHCR2", "DLLCR"}

\* One access of a configuration register through the PAC: m = "modify"
\* changes the fields named in fs and keeps the others, m = "write" makes the
\* register its reset value with the fields named in fs replaced.
RW(r, i, m, fs) == [r |-> r, i |-> i, m |-> m, fs |-> fs]

Merge(old, fs) == [f \in DOMAIN old |-> IF f \in DOMAIN fs THEN fs[f] ELSE old[f]]

ApplyCtl(ctl, w) ==
    IF w.r \in Indexed
    THEN [ctl EXCEPT ![w.r][w.i] =
             Merge(IF w.m = "write" THEN CtlReset[w.r][w.i] ELSE @, w.fs)]
    ELSE [ctl EXCEPT ![w.r] =
             Merge(IF w.m = "write" THEN CtlReset[w.r] ELSE @, w.fs)]

\* ------------------------------------------------------- configure_flexspi
\* FlexspiConfig with its AhbConfig, over the fields configure_flexspi reads.
\* The fields that share a register vary independently of each other.
FlexspiConfig(mode, b0, b1, b2, b3) ==
    [rx_sample_clock |-> mode,
     enable_doze |-> b0,
     enable_sck_free_running |-> b1,
     enable_half_speed_access |-> b2,
     seq_timeout_cycle |-> IF b1 THEN 65535 ELSE 100,
     enable_same_config_for_all |-> b0,
     enable_sck_b_diff_opt |-> b2,
     ahb_config |->
        [ahb_bus_timeout_cycle |-> IF b0 THEN 65535 ELSE 200,
         resume_wait_cycle |-> IF b1 THEN 32 ELSE 5,
         enable_clear_ahb_buffer_opt |-> b3,
         enable_read_address_opt |-> b0,
         enable_ahb_prefetch |-> b1,
         enable_ahb_bufferable |-> b2,
         enable_ahb_cachable |-> b3,
         buffer |-> [i \in Buffers |->
                        IF b3
                        THEN [priority |-> 0, master_index |-> 0, buffer_size |-> 256,
                              enable_prefetch |-> TRUE]
                        ELSE [priority |-> i % 2, master_index |-> i,
                              buffer_size |-> 64 * (i + 1), enable_prefetch |-> i = 0]]]]

FlexspiConfigs ==
    {FlexspiConfig(mode, b0, b1, b2, b3) : mode \in Modes, b0 \in BOOLEAN, b1 \in BOOLEAN,
                                           b2 \in BOOLEAN, b3 \in BOOLEAN}

\* A configuration nobody gave.
NoConf == FlexspiConfig("LoopbackInternally", FALSE, FALSE, FALSE, FALSE)

\* configure_flexspi: the match on config.rx_sample_clock.
RxClkSrc(mode) ==
    CASE mode = "LoopbackInternally" -> 0
      [] mode = "LoopbackFromDqsPad" -> 1
      [] mode = "LoopbackFromSckPad" -> 3
      [] mode = "ExternalInputFromDqsPad" -> 3

\* configure_flexspi before the software-reset wait.
FlexResetWrites ==
    <<RW("MCR0", 0, "modify", [mdis |-> 0]),
      RW("MCR0", 0, "modify", [swreset |-> 1])>>

\* A configuration that left the module running.
LeaveModuleRunning == <<>>

\* Set MCR0[MDIS] to 0x1: the module is configured in stop mode.
StopModule == <<RW("MCR0", 0, "modify", [mdis |-> 1])>>

\* A bank selection that looked at the port alone.
BankOfPort(port, inst) == <<port, 0>>

\* match self.flash_port { .. match self.device_instance { .. } }
Bank(port, inst) == <<port, inst>>

\* regs.ahbrxbuf0cr0() .. regs.ahbrxbuf7cr0()
AhbBufferWrites(config) ==
    [i \in 1 .. 8 |->
        RW("AHBRXBUFCR0", i - 1, "modify",
           [mstrid |-> 0, prefetchen |-> 1, bufsz |-> 256, priority |-> 0])]

\* configure_flexspi after the module is stopped, in program order, up to the
\* FIFO watermark writes.
FlexWrites(config, port, inst) ==
    <<RW("MCR0", 0, "modify", [rxclksrc |-> RxClkSrc(config.rx_sample_clock)]),
      RW("MCR0", 0, "modify", [dozeen |-> Bit(config.enable_doze)]),
      RW("MCR0", 0, "modify", [sckfreerunen |-> Bit(config.enable_sck_free_running)]),
      RW("MCR0", 0, "modify", [hsen |-> Bit(config.enable_half_speed_access)]),
      RW("MCR1", 0, "modify", [ahbbuswait |-> config.ahb_config.ahb_bus_timeout_cycle,
                               seqwait |-> config.seq_timeout_cycle]),
      RW("MCR2", 0, "modify", [samedeviceen |-> Bit(config.enable_same_config_for_all)]),
      RW("MCR2", 0, "modify", [resumewait |-> config.ahb_config.resume_wait_cycle]),
      RW("MCR2", 0, "write", [sckbdiffopt |-> Bit(config.enable_sck_b_diff_opt)]),
      RW("MCR2", 0, "modify",
         [clrahbbufopt |-> Bit(config.ahb_config.enable_clear_ahb_buffer_opt)]),
      RW("AHBCR", 0, "modify",
         [readaddropt |-> Bit(config.ahb_config.enable_read_address_opt)]),
      RW("AHBCR", 0, "modify", [prefetchen |-> Bit(config.ahb_config.enable_ahb_prefetch)]),
      RW("AHBCR", 0, "modify",
         [bufferableen |-> Bit(config.ahb_config.enable_ahb_bufferable)]),
      RW("AHBCR", 0, "modify", [cachableen |-> Bit(config.ahb_config.enable_ahb_cachable)])>>
    \o AhbBufferWrites(config)
    \o <<RW("FLSHCR0", Bank(port, inst), "modify", [flshsz |-> 0])>>

\* ------------------------------------------------ configure_flexspi_device
\* FlexspiAhbWriteWaitUnit, by the value of the AWRWAITUNIT field.
AwrWaitUnit(unit) ==
    CASE unit = "2ahbCycle" -> 0
      [] unit = "8ahbCycle" -> 1
      [] unit = "32ahbCycle" -> 2
      [] unit = "128ahbCycle" -> 3
      [] unit = "512ahbCycle" -> 4
      [] unit = "2048ahbCycle" -> 5
      [] unit = "8192ahbCycle" -> 6
      [] unit = "32768ahbCycle" -> 7

\* FlexspiCsIntervalCycleUnit, by the value of the CSINTERVALUNIT field.
CsIntervalUnit(unit) == IF unit = "256Cycle" THEN 1 ELSE 0

\* FlexspiDeviceConfig, over the fields written to the flash-control
\* registers.
FlexspiDeviceConfig(b) ==
    [flash_size_kb |-> IF b THEN 8192 ELSE 65536,
     cs_interval_unit |-> IF b THEN "256Cycle" ELSE "1Cycle",
     cs_interval |-> IF b THEN 5 ELSE 0,
     cs_hold_time |-> IF b THEN 2 ELSE 3,
     cs_setup_time |-> IF b THEN 4 ELSE 3,
     columnspace |-> IF b THEN 3 ELSE 0,
     enable_word_address |-> b,
     ard_seq_index |-> IF b THEN 9 ELSE 0,
     ahb_write_wait_unit |-> IF b THEN "512ahbCycle" ELSE "2ahbCycle",
     enable_write_mask |-> b]

DeviceConfigs == {FlexspiDeviceConfig(b) : b \in BOOLEAN}
NoDev == FlexspiDeviceConfig(FALSE)

\* The register access that the write w of DeviceWrites makes, for the call
\* c of configure_flexspi_device.
DeviceWrite(c, w) ==
    CASE w.r = "FLSHCR4" ->
            RW("FLSHCR4", 0, "write",
               IF w.f = "wmopt1" THEN [wmopt1 |-> Bit(c.dev.enable_write_mask)]
               ELSE IF w.f = "wmena" THEN [wmena |-> Bit(c.dev.enable_write_mask)]
               ELSE [wmenb |-> Bit(c.dev.enable_write_mask)])
      [] w.r = "DLLCR" -> RW("DLLCR", w.f, "modify", [bits |-> c.dll_val])
      [] w.r = "FLSHCR0" ->
            RW("FLSHCR0", Bank(c.port, c.inst), "modify", [flshsz |-> c.dev.flash_size_kb])
      [] w.r = "FLSHCR1" /\ w.f = "cs" ->
            RW("FLSHCR1", Bank(c.port, c.inst), "modify",
               [csinterval |-> c.dev.cs_interval, tcsh |-> c.dev.cs_hold_time,
                tcss |-> c.dev.cs_setup_time, cas |-> c.dev.columnspace,
                wa |-> Bit(c.dev.enable_word_address)])
      [] w.r = "FLSHCR1" /\ w.f = "csintervalunit" ->
            RW("FLSHCR1", Bank(c.port, c.inst), "modify",
               [csintervalunit |-> CsIntervalUnit(c.dev.cs_interval_unit)])
      [] w.r = "FLSHCR2" /\ w.f = "awrwaitunit" ->
            RW("FLSHCR2", Bank(c.port, c.inst), "modify",
               [awrwaitunit |-> AwrWaitUnit(c.dev.ahb_write_wait_unit)])
      [] w.r = "FLSHCR2" /\ w.f = "ardseq" ->
            RW("FLSHCR2", Bank(c.port, c.inst), "modify",
               [ardseqnum |-> c.ard - 1, ardseqid |-> c.dev.ard_seq_index])
      [] w.r = "MCR0" -> RW("MCR0", 0, "write", [mdis |-> 0])

\* ------------------------------------------------------------ FlexSpiError
ErrKinds == {"CmdGrantErr", "CmdCheckErr", "CmdExecErr"}

FlexSpiError(kind, rd, wr, ip) ==
    [kind |-> kind, AhbReadCmdErr |-> rd, AhbWriteCmdErr |-> wr, IpCmdErr |-> ip]

\* Every value of enum FlexSpiError; a flag a variant does not carry is FALSE.
FlexSpiErrors ==
    {FlexSpiError(k, rd, wr, ip) : k \in ErrKinds, rd \in BOOLEAN, wr \in BOOLEAN,
                                   ip \in BOOLEAN}
    \cup {FlexSpiError("AhbBusTimeout", rd, wr, FALSE) : rd \in BOOLEAN, wr \in BOOLEAN}
    \cup {FlexSpiError("DataLearningFailed", FALSE, FALSE, FALSE)}

NoErr == FlexSpiError("DataLearningFailed", FALSE, FALSE, FALSE)

\* A grant-error text chosen with the write flag first.
GrantCauseWriteFirst(rd, wr, ip) ==
    IF wr THEN "AHB bus error response for Write Command. Command grant timeout"
    ELSE IF rd THEN "AHB bus error response for Read Command. Command grant timeout"
    ELSE IF ip THEN "IP command grant timeout. Command grant timeout"
    ELSE "Unknown Flash command grant error"

\* describe: the CmdGrantErr arm.
GrantCause(rd, wr, ip) ==
    IF rd THEN "AHB bus error response for Read Command. Command grant timeout"
    ELSE IF wr THEN "AHB bus error response for Write Command. Command grant timeout"
    ELSE IF ip THEN "IP command grant timeout. Command grant timeout"
    ELSE "Unknown Flash command grant error"

\* describe: the CmdCheckErr arm.  Each text is given by its first sentence
\* and the reason only it lists.
CheckCause(rd, wr, ip) ==
    IF wr THEN "Command is not executed when error detected in command check. AHB write command with JMP_ON_CS"
    ELSE IF rd THEN "Command is not executed when error detected in command check. There is unknown instruction opcode"
    ELSE IF ip THEN "Command is not executed when error detected in command check. IP command with JMP_ON_CS"
    ELSE "Unknown Flash command check error"

\* describe: the CmdExecErr arm.
ExecCause(rd, wr, ip) ==
    IF wr THEN "There will be AHB bus error response except the following cases. Command timeout during execution"
    ELSE IF rd THEN "There will be AHB bus error response. Command timeout during execution"
    ELSE IF ip THEN "Following are possible reasons for this error. Command timeout during execution"
    ELSE "Unknown Flash command execution error"

\* describe: the AhbBusTimeout arm.
BusTimeoutCause(rd, wr) ==
    IF rd \/ wr THEN "There will be AHB bus error response. AHB bus timeout (no bus ready return)"
    ELSE "Unknown AHB bus timeout error"

\* FlexSpiError::describe
describe(e) ==
    CASE e.kind = "CmdGrantErr" -> GrantCause(e.AhbReadCmdErr, e.AhbWriteCmdErr, e.IpCmdErr)
      [] e.kind = "CmdCheckErr" -> CheckCause(e.AhbReadCmdErr, e.AhbWriteCmdErr, e.IpCmdErr)
      [] e.kind = "CmdExecErr" -> ExecCause(e.AhbReadCmdErr, e.AhbWriteCmdErr, e.IpCmdErr)
      [] e.kind = "AhbBusTimeout" -> BusTimeoutCause(e.AhbReadCmdErr, e.AhbWriteCmdErr)
      [] e.kind = "DataLearningFailed" -> "Data learning failed"

\* ---------------------------------------------- configuration port state

CfgRec(pc, port, inst, mode, sck2, clk, dvt, ard, arb, seq) ==
    [pc |-> pc, port |-> port, inst |-> inst, mode |-> mode, sck2 |-> sck2,
     clk |-> clk, dvt |-> dvt, ard |-> ard,
     dll_val |-> 0, conf |-> NoConf, dev |-> NoDev, ctl |-> CtlReset,
     sts0 |-> [arbidle |-> arb, seqidle |-> seq],
     sts2 |-> [slv |-> NoLock, ref |-> NoLock],
     todo |-> <<>>, log |-> <<>>, hot |-> {}, obsArb |-> FALSE, obsSeq |-> FALSE,
     err |-> NoErr, text |-> ""]

\* The configuration port at rest.
NoCfg == CfgRec("off", "A", 0, "LoopbackInternally", FALSE, 0, 0, 0, 1, 1)

InitWith(n, polls) ==
    /\ variant \in Variants
    /\ nctx = n
    /\ wipPolls \in polls
    /\ \E used \in BOOLEAN :
          /\ reg = IF used THEN UsedReg ELSE ResetReg
          /\ lut = IF used THEN StaleLut ELSE ProgrammedLut
    /\ fifo = [fill |-> 0, rfdr |-> <<0, 0>>]
    /\ inflight = NoCmd
    /\ flash = [wip |-> 0]
    /\ mem = ErasedMem
    /\ cx = [c \in Ctx |-> IdleCx]
    /\ h = [lastWr |-> NoWrite, cur |-> NoBuild, rep |-> FALSE, rt |-> NoRt, calls |-> 0]
    /\ cfg = NoCfg

\* One execution context owns the controller.
Init == InitWith(1, 1 .. MaxPolls)
\* Two execution contexts call the engine with no serialization between them.
InitConc == InitWith(2, {1})

\* -------------------------------------------------------- register surface
LutUnlocked(r) ==
    /\ r.LUTKEY = LUT_KEY
    /\ (r.LUTCR \div 2) % 2 = 1
    /\ r.LUTCR % 2 = 0

\* The value a LUT register holds after the store of word w over old.
\* A LUT store that added to the word instead of replacing it.
LutStoreAccumulate(old, w) == <<(old[1] + w[1]) % 65536, (old[2] + w[2]) % 65536>>

LutStore(old, w) == w

\* Register block after access w (LUT words and the FIFO are kept apart).
ApplyReg(r, w) ==
    CASE w.r = "IPCR0" -> [r EXCEPT !.IPCR0 = w.v]
      [] w.r = "IPCR1" /\ w.m = "clr" -> [r EXCEPT !.IPCR1 = 0]
      [] w.r = "IPCR1" /\ w.m = "or" -> [r EXCEPT !.IPCR1 = BitOr(@, w.v)]
      [] w.r = "IPCR1" /\ w.m = "pac" -> [r EXCEPT !.IPCR1 = w.v]
      [] w.r = "LUTKEY" -> [r EXCEPT !.LUTKEY = w.v]
      [] w.r = "LUTCR" /\ w.m = "store" -> [r EXCEPT !.LUTCR = w.v]
      [] w.r = "LUTCR" /\ w.m = "pac" -> [r EXCEPT !.LUTCR = w.v * LUTCR_UNLOCK]
      [] w.r = "FLSHCR2" /\ w.m = "or" /\ w.f = "clrinstrptr" ->
            [r EXCEPT !.FLSHCR2[w.i].clrinstrptr = 1]
      [] w.r = "FLSHCR2" /\ w.m = "pac" ->
            [r EXCEPT !.FLSHCR2[w.i] = [Flshcr2Reset EXCEPT !.clrinstrptr = w.v]]
      [] w.r = "FLSHCR2" /\ w.m = "clr" /\ w.f = "awrseqid" ->
            [r EXCEPT !.FLSHCR2[w.i].awrseqid = 0]
      [] w.r = "FLSHCR2" /\ w.m = "or" /\ w.f = "awrseqid" ->
            [r EXCEPT !.FLSHCR2[w.i].awrseqid = BitOr(@, w.v)]
      [] w.r = "IPRXFCR" /\ w.m = "clr" -> [r EXCEPT !.IPRXFCR.rxdmaen = 0]
      [] w.r = "IPRXFCR" /\ w.m = "or" -> r
      [] w.r = "IPRXFCR" /\ w.m = "pac" ->
            [r EXCEPT !.IPRXFCR = [rxdmaen |-> 0,
                                   rxwmrk |-> IF w.f = "rxwmrk" THEN w.v ELSE 0]]
      [] w.r = "IPTXFCR" /\ w.m = "clr" -> [r EXCEPT !.IPTXFCR.txdmaen = 0]
      [] w.r = "IPTXFCR" /\ w.m = "or" -> r
      [] w.r = "IPTXFCR" /\ w.m = "pac" ->
            [r EXCEPT !.IPTXFCR = [txdmaen |-> 0,
                                   txwmrk |-> IF w.f = "txwmrk" THEN w.v ELSE 0]]
      [] w.r = "INTR" /\ w.m = "w1c" -> [r EXCEPT !.INTR.iprxwa = 0]
      [] OTHER -> r

ClearsRxFifo(w) == w.r = "IPRXFCR" /\ w.f = "clriprxf"

\* What the history keeps of a register access by context c.
WriteRecord(c, w) ==
    [ctx |-> c, r |-> w.r, i |-> w.i, busy |-> inflight # NoCmd,
     owner |-> inflight.owner, unlocked |-> LutUnlocked(reg)]

\* ------------------------------------------------------------- operations
\* The operations each variant offers.
OpsOf(v) ==
    CASE v = "Ram" -> {"write_enable", "read_status", "read_id", "erase",
                       "dp_erase", "cp_write", "cp_read", "cp_capacity"}
      [] v = "Xip" -> {"write_enable", "read_status", "erase", "wait_op",
                       "write", "read", "dp_erase"}
      [] v = "Storage" -> {"write_enable", "read_status", "erase", "write", "read"}

\* The trait operations a port has no use for.
UnusedOps == {"dp_erase", "cp_write", "cp_read", "cp_capacity"}

\* A data port whose erase panics on the RAM controller only.
PanicOpsRamOnly(v) ==
    IF v = "Ram" THEN {"dp_erase", "cp_write", "cp_read", "cp_capacity"} ELSE {}

\* Ports on which every trait operation had a body.
PanicOpsNone(v) == {}

\* Operations whose body is an unconditional panic!.
PanicOps(v) ==
    CASE v = "Ram" -> {"dp_erase", "cp_write", "cp_read", "cp_capacity"}
      [] v = "Xip" -> {"dp_erase"}
      [] OTHER -> {}

\* The command whose setup an operation runs first.
FirstCmd(o) ==
    CASE o = "write_enable" -> "WriteEnable"
      [] o \in {"read_status", "wait_op"} -> "ReadStatusRegister"
      [] o = "read_id" -> "ReadId"
      [] o \in {"erase", "dp_erase"} -> "EraseSector"
      [] o \in {"write", "cp_write"} -> "PageProgram"
      [] OTHER -> "none"

\* The address an operation hands to the setup of its first command.
\* FlexSpiCmdPort<Blocking, Ram>::erase passes None.
SetupAddr(v, o, addr) ==
    IF o \in {"erase", "dp_erase"} /\ v # "Ram" THEN addr ELSE 0

\* Context c starts the setup step of command cmd.
StartSetup(rec, cmd, addr) ==
    [rec EXCEPT !.pc = "setup", !.cmd = cmd,
                !.todo = SetupWrites(variant, cmd, addr),
                !.written = {}, !.lut0 = lut,
                !.hits = {}, !.trig = 0, !.seen = FALSE, !.drained = FALSE,
                !.pass = 0]

\* Operations that poll the status register until WIP = 0.
PollsWip(v, o) ==
    \/ o = "wait_op"
    \/ o \in {"erase", "dp_erase"} /\ v # "Ram"
    \/ o = "write" /\ v = "Storage"

\* An engine that returned as soon as the completion poll had passed.
AfterPollNoDrain(rec) == [rec EXCEPT !.pc = "done"]

\* Where a call continues once the completion poll of cmd has passed.
AfterPoll(rec) ==
    CASE rec.cmd \in {"ReadStatusRegister", "ReadId"} -> [rec EXCEPT !.pc = "fifo_wait"]
      [] rec.cmd = "EraseSector" /\ PollsWip(variant, rec.op) ->
            StartSetup([rec EXCEPT !.size = 1], "ReadStatusRegister", 0)
      [] OTHER -> [rec EXCEPT !.pc = "done"]

\* Where a call continues once read_cmd_data has returned.
AfterData(rec) ==
    IF PollsWip(variant, rec.op) THEN [rec EXCEPT !.pc = "check"]
    ELSE [rec EXCEPT !.pc = "done"]

\* An engine that took one lock over the controller for the length of a call.
CallableLocked(c) == \A d \in Ctx : cx[d].pc = "idle"

\* What keeps context c from entering the engine: only a call of its own.  Each
\* handle is built over the same register block and the engine takes no lock.
Callable(c) == cx[c].pc = "idle"

Call(c, o, addr, bytes, size, len) ==
    /\ c <= nctx
    /\ Callable(c)
    /\ nctx > 1 => h.calls < MaxCalls
    /\ o \in OpsOf(variant)
    /\ LET fresh == [IdleCx EXCEPT !.op = o, !.addr = addr, !.bytes = bytes,
                                   !.size = size, !.req = size,
                                   !.buf = [k \in 1 .. len |-> 0],
                                   !.gate = cx[c].gate]
       IN  cx' = [cx EXCEPT ![c] =
                    IF o \in PanicOps(variant) THEN [fresh EXCEPT !.pc = "panicked"]
                    ELSE IF o = "read" THEN [fresh EXCEPT !.pc = "load"]
                    ELSE StartSetup(fresh, FirstCmd(o), SetupAddr(variant, o, addr))]
    /\ h' = [h EXCEPT !.rt = IF o = "read" THEN @ ELSE NoRt,
                      !.calls = IF nctx > 1 THEN @ + 1 ELSE @]
    /\ UNCHANGED <<cfg, variant, nctx, wipPolls, reg, lut, fifo, inflight, flash, mem>>

CallWriteEnable(c) == Call(c, "write_enable", 0, <<>>, 0, 0)
CallReadStatus(c) == Call(c, "read_status", 0, <<>>, 1, 0)
CallReadId(c) == \E size \in {4, 8} : Call(c, "read_id", 0, <<>>, size, 0)
CallErase(c) == \E from \in Addrs : Call(c, "erase", from, <<>>, 0, 0)
CallWaitOp(c) == Call(c, "wait_op", 0, <<>>, 1, 0)
CallWrite(c) == \E a \in Addrs, b \in ByteSeqs : Call(c, "write", a, b, 0, 0)
\* write of the one-byte slice <<1>> at offset 0.
CallWriteByte(c) == Call(c, "write", 0, <<1>>, 0, 0)
CallRead(c) == \E a \in Addrs, len \in 1 .. MaxLen : Call(c, "read", a, <<>>, 0, len)
CallIllegal(c) == \E o \in OpsOf(variant) \cap UnusedOps : Call(c, o, 0, <<1>>, 0, 1)

\* One register access of the setup step.
SetupStep(c) ==
    /\ cx[c].pc = "setup"
    /\ cx[c].todo # <<>>
    /\ LET w == Head(cx[c].todo)
           last == Len(cx[c].todo) = 1
           lutN == IF w.r = "LUT" /\ w.i \in LutIdx
                   THEN [lut EXCEPT ![w.i] = LutStore(@, w.w)] ELSE lut
           built == [cmd |-> cx[c].cmd, lut |-> lutN]
       IN  /\ reg' = ApplyReg(reg, w)
           /\ lut' = lutN
           /\ fifo' = IF ClearsRxFifo(w) THEN [fifo EXCEPT !.fill = 0] ELSE fifo
           /\ cx' = [cx EXCEPT ![c].todo = Tail(@),
                               ![c].wrote = TRUE,
                               ![c].written = IF w.r = "LUT" THEN @ \cup {w.i} ELSE @,
                               ![c].hits = IF w.r = "LUT" THEN @ ELSE @ \cup {<<w.r, w.f, w.i>>},
                               ![c].pc = IF ~last THEN "setup"
                                         ELSE IF cx[c].cmd = "PageProgram" THEN "store"
                                         ELSE "trigger"]
           /\ h' = [h EXCEPT !.lastWr = WriteRecord(c, w),
                             !.cur = IF last THEN built ELSE @,
                             !.rep = IF last THEN h.cur.cmd = cx[c].cmd ELSE @]
    /\ UNCHANGED <<cfg, variant, nctx, wipPolls, inflight, flash, mem>>

\* The LUT words the controller runs for sequence index s.
SlotProg(s) ==
    IF s \in Slots THEN [k \in 1 .. 4 |-> lut[s * LUT_NUM_REG_PER_SEQ + (k - 1)]]
    ELSE [k \in 1 .. 4 |-> StaleWord]

\* execute_cmd: IPCMD.TRG is set.  The controller latches the sequence that
\* IPCR1 selects.  A trigger while a command is in flight is rejected or
\* corrupts the transfer.
ExecuteCmd(c) ==
    /\ cx[c].pc = "trigger"
    /\ \/ /\ inflight = NoCmd
          /\ inflight' = [prog |-> SlotProg(reg.IPCR1), addr |-> reg.IPCR0, owner |-> c]
       \/ /\ inflight # NoCmd
          /\ \/ inflight' = inflight
             \/ inflight' = [prog |-> [k \in 1 .. 4 |-> StaleWord], addr |-> 0, owner |-> c]
    /\ cx' = [cx EXCEPT ![c].pc = "poll",
                        ![c].wrote = TRUE,
                        ![c].trig = IF @ < 2 THEN @ + 1 ELSE @,
                        ![c].nstat = IF cx[c].cmd = "ReadStatusRegister" /\ @ <= MaxPolls
                                     THEN @ + 1 ELSE @,
                        ![c].gate = IF cx[c].cmd = "EraseSector" THEN TRUE ELSE @]
    /\ h' = [h EXCEPT !.lastWr = WriteRecord(c, W("IPCMD", "or", "trg", 0, 1))]
    /\ UNCHANGED <<cfg, variant, nctx, wipPolls, reg, lut, fifo, flash, mem>>

\* wait_for_cmd_completion: leaves the loop when INTR.IPCMDDONE reads 1.
WaitForCmdCompletion(c) ==
    /\ cx[c].pc = "poll"
    /\ reg.INTR.ipcmddone = 1
    /\ cx' = [cx EXCEPT ![c] = AfterPoll([cx[c] EXCEPT !.seen = TRUE])]
    /\ UNCHANGED <<cfg, variant, nctx, wipPolls, reg, lut, fifo, inflight, flash, mem, h>>

\* The bytes the read instruction of a read-id program asks for: the operand
\* of the second instruction of its first word.
ReadBytes(prog) == prog[1][2] % 256

\* The RX FIFO with its first n 64-bit entries popped.
PopRx(f, n) ==
    IF f.fill >= n
    THEN [fill |-> f.fill - n, rfdr |-> SubSeq(f.rfdr, 2 * n + 1, Len(f.rfdr))]
    ELSE f

\* INTR.IPRXWA after the FIFO changed: raised while the FIFO holds a
\* watermark of data, sticky otherwise.
RxWatermarkAvailable(r, f, old) == IF f.fill >= r.IPRXFCR.rxwmrk + 1 THEN 1 ELSE old

\* A drain that read one FIFO word whatever the size asked for.
FifoWordsOne(v, size) == 1

\* The FIFO words read_cmd_data reads for a size within the watermark:
\* data[0], then `size -= 4; if size > 0 { data[1] = .. }` in the RAM command
\* port; RFDR[0] alone in the others.
FifoWords(v, size) == IF v = "Ram" /\ size - 4 > 0 THEN 2 ELSE 1

\* read_cmd_data: waits for FILL * 8 >= size, then reads RFDR[0] (and RFDR[1]
\* in the RAM command port when more than four bytes were asked for).
ReadCmdData(c) ==
    /\ cx[c].pc = "fifo_wait"
    /\ variant = "Ram" => cx[c].size <= RxWatermark
    /\ fifo.fill * 8 >= cx[c].size
    /\ LET wip == fifo.rfdr[1] % 2
           words == [k \in 1 .. FifoWords(variant, cx[c].size) |-> fifo.rfdr[k]]
           rec == [cx[c] EXCEPT
                     !.status = fifo.rfdr[1],
                     !.drained = TRUE,
                     !.buf = words,
                     !.data = StoreWords(@, 0, words),
                     !.pass = @ + 1,
                     !.obs = IF Len(@) <= MaxPolls THEN Append(@, wip) ELSE @,
                     !.gate = IF cx[c].cmd = "ReadStatusRegister" /\ wip = 0
                              THEN FALSE ELSE @]
       IN  cx' = [cx EXCEPT ![c] = IF variant = "Ram" THEN [rec EXCEPT !.pc = "fifo_ack"]
                                   ELSE AfterData(rec)]
    /\ UNCHANGED <<cfg, variant, nctx, wipPolls, reg, lut, fifo, inflight, flash, mem, h>>

\* read_cmd_data of the RAM command port: INTR.IPRXWA is cleared by write-1.
AckWatermark(c) ==
    /\ cx[c].pc = "fifo_ack"
    /\ LET w == W("INTR", "w1c", "iprxwa", 0, 1)
           popped == PopRx(fifo, reg.IPRXFCR.rxwmrk + 1)
       IN  /\ fifo' = popped
           /\ reg' = [reg EXCEPT !.INTR.iprxwa = RxWatermarkAvailable(reg, popped, 0)]
           /\ h' = [h EXCEPT !.lastWr = WriteRecord(c, w)]
    /\ cx' = [cx EXCEPT ![c] = AfterData([cx[c] EXCEPT !.wrote = TRUE])]
    /\ UNCHANGED <<cfg, variant, nctx, wipPolls, lut, inflight, flash, mem>>

\* The word RFDR[k - 1] reads: the k-th word of the FIFO, zero beyond the
\* words it holds.
Rfdr(k) == IF k <= Len(fifo.rfdr) THEN fifo.rfdr[k] ELSE 0

\* The FIFO words one drain pass reads: `for i in 0..num_fifo_slot`, then
\* `data[data_cnt] = rfdr(num_fifo_slot)`.
DrainWords == RxWatermark \div 4 + 1

\* read_cmd_data of the RAM command port, a pass with size above the
\* watermark: waits for INTR.IPRXWA, then reads RFDR[0 ..= num_fifo_slot] into
\* data[0 ..= num_fifo_slot].
DrainPass(c) ==
    /\ cx[c].pc = "fifo_wait"
    /\ variant = "Ram" /\ cx[c].size > RxWatermark
    /\ reg.INTR.iprxwa = 1
    /\ LET words == [k \in 1 .. DrainWords |-> Rfdr(k)]
       IN  cx' = [cx EXCEPT ![c].buf = words,
                           ![c].data = StoreWords(@, 0, words),
                           ![c].drained = TRUE,
                           ![c].pass = @ + 1,
                           ![c].pc = "drain_ack"]
    /\ UNCHANGED <<cfg, variant, nctx, wipPolls, reg, lut, fifo, inflight, flash, mem, h>>

\* The end of a drain pass: INTR.IPRXWA is cleared by write-1, which makes the
\* controller pop a watermark of data; `size -= rx_watermark`, and the loop
\* goes round again since size is still above zero.
DrainAck(c) ==
    /\ cx[c].pc = "drain_ack"
    /\ LET w == W("INTR", "w1c", "iprxwa", 0, 1)
           popped == PopRx(fifo, reg.IPRXFCR.rxwmrk + 1)
       IN  /\ fifo' = popped
           /\ reg' = [reg EXCEPT !.INTR.iprxwa = RxWatermarkAvailable(reg, popped, 0)]
           /\ h' = [h EXCEPT !.lastWr = WriteRecord(c, w)]
    /\ cx' = [cx EXCEPT ![c].size = @ - RxWatermark, ![c].pc = "fifo_wait"]
    /\ UNCHANGED <<cfg, variant, nctx, wipPolls, lut, inflight, flash, mem>>

\* A completion wait that never took the flash for idle.
WipClearNever(status) == FALSE

\* A completion wait that took any status value for WIP = 0.
WipClearAlways(status) == TRUE

\* status[0] & 0x1 == 0x0
WipClear(status) == status % 2 = 0

\* The WIP test of erase / write / wait_for_operation_completion.
CheckWip(c) ==
    /\ cx[c].pc = "check"
    /\ cx' = [cx EXCEPT ![c] =
                IF WipClear(cx[c].status) THEN [cx[c] EXCEPT !.pc = "done"]
                ELSE StartSetup(cx[c], "ReadStatusRegister", 0)]
    /\ UNCHANGED <<cfg, variant, nctx, wipPolls, reg, lut, fifo, inflight, flash, mem, h>>

\* A write that stored the whole slice, byte by byte, from the offset on.
StoreSlice(c) ==
    /\ cx[c].pc = "store"
    /\ mem' = [a \in Addrs |->
                 IF a >= cx[c].addr /\ a - cx[c].addr < Len(cx[c].bytes)
                 THEN cx[c].bytes[a - cx[c].addr + 1] ELSE mem[a]]
    /\ flash' = [flash EXCEPT !.wip = wipPolls - 1]
    /\ cx' = [cx EXCEPT ![c] =
                IF PollsWip(variant, cx[c].op)
                THEN StartSetup([cx[c] EXCEPT !.size = 1], "ReadStatusRegister", 0)
                ELSE [cx[c] EXCEPT !.pc = "done"]]
    /\ h' = [h EXCEPT !.rt = [addr |-> cx[c].addr, bytes |-> cx[c].bytes]]
    /\ UNCHANGED <<cfg, variant, nctx, wipPolls, reg, lut, fifo, inflight>>

\* write: the single store through the memory window, *ptr = bytes[0].
StoreByte(c) ==
    /\ cx[c].pc = "store"
    /\ mem' = [mem EXCEPT ![cx[c].addr] = cx[c].bytes[1]]
    /\ flash' = [flash EXCEPT !.wip = wipPolls - 1]
    /\ cx' = [cx EXCEPT ![c] =
                IF PollsWip(variant, cx[c].op)
                THEN StartSetup([cx[c] EXCEPT !.size = 1], "ReadStatusRegister", 0)
                ELSE [cx[c] EXCEPT !.pc = "done"]]
    /\ h' = [h EXCEPT !.rt = [addr |-> cx[c].addr, bytes |-> cx[c].bytes]]
    /\ UNCHANGED <<cfg, variant, nctx, wipPolls, reg, lut, fifo, inflight>>

\* read: the single load through the memory window, bytes[0] = *ptr.
LoadByte(c) ==
    /\ cx[c].pc = "load"
    /\ cx' = [cx EXCEPT ![c].buf = [@ EXCEPT ![1] = mem[cx[c].addr]],
                        ![c].pc = "done"]
    /\ UNCHANGED <<cfg, variant, nctx, wipPolls, reg, lut, fifo, inflight, flash, mem, h>>

\* The call returns to its caller.
Return(c) ==
    /\ cx[c].pc = "done"
    /\ cx' = [cx EXCEPT ![c] = [IdleCx EXCEPT !.gate = cx[c].gate]]
    /\ UNCHANGED <<cfg, variant, nctx, wipPolls, reg, lut, fifo, inflight, flash, mem, h>>

\* ---------------------------------------------------------------- hardware
\* The command a LUT program makes the flash run.
Decode(prog) ==
    IF \E k \in IpCmds : LutProgram("Xip", k) = prog
    THEN CHOOSE k \in IpCmds : LutProgram("Xip", k) = prog
    ELSE IF prog = LongIdProgram THEN "ReadId"
    ELSE "unknown"

\* The controller finishes the command in flight: INTR.IPCMDDONE is set (and
\* stays set until written with 1), a read command leaves its data in the RX
\* FIFO, an erase starts the flash's busy period.
HwComplete ==
    /\ inflight # NoCmd
    /\ LET k == Decode(inflight.prog)
           data == k \in {"ReadStatusRegister", "ReadId"}
           word == IF k = "ReadId" THEN IdWord[1]
                   ELSE IF flash.wip > 0 THEN 1 ELSE 0
           answer == IF k = "ReadId" THEN IdAnswer(ReadBytes(inflight.prog))
                     ELSE <<word, 0>>
       IN  /\ fifo' = IF data THEN [fill |-> Len(answer) \div 2, rfdr |-> answer] ELSE fifo
           /\ flash' = CASE k = "ReadStatusRegister" ->
                              [flash EXCEPT !.wip = IF @ > 0 THEN @ - 1 ELSE 0]
                         [] k = "EraseSector" -> [flash EXCEPT !.wip = wipPolls - 1]
                         [] OTHER -> flash
           /\ mem' = IF k = "EraseSector" THEN ErasedMem ELSE mem
           /\ reg' = [reg EXCEPT !.INTR.ipcmddone = 1,
                                 !.INTR.iprxwa = IF data
                                                 THEN RxWatermarkAvailable(reg, fifo', @)
                                                 ELSE @]
    /\ inflight' = NoCmd
    /\ UNCHANGED <<cfg, variant, nctx, wipPolls, lut, cx, h>>

\* The INTR bits that report an error of an IP command: command grant
\* timeout, command check error, command execution (sequence) timeout.
IpErrorBits == {"ipcmdge", "ipcmderr", "seqtimeout"}

\* The controller gives up the command in flight and reports an error in
\* INTR.  Whether it also raises the command-done bit is left to the
\* hardware.
HwFail ==
    /\ inflight # NoCmd
    /\ inflight.owner \in Ctx
    /\ \E e \in IpErrorBits, done \in {0, 1} :
          /\ reg' = [reg EXCEPT !.INTR[e] = 1,
                                !.INTR.ipcmddone = IF done = 1 THEN 1 ELSE @]
          /\ cx' = [cx EXCEPT ![inflight.owner].fail = e]
    /\ inflight' = NoCmd
    /\ UNCHANGED <<cfg, variant, nctx, wipPolls, lut, fifo, flash, mem, h>>

\* What a call hands back to its caller: each operation ends in Ok(()) or in
\* the plain data it read; no operation reads the error bits of INTR.
OpResult(rec) == [kind |-> "Ok", AhbReadCmdErr |-> FALSE, AhbWriteCmdErr |-> FALSE,
                  IpCmdErr |-> FALSE]

\* The steps every IP command is made of.
Step(c) ==
    \/ SetupStep(c)
    \/ ExecuteCmd(c)
    \/ WaitForCmdCompletion(c)
    \/ ReadCmdData(c)
    \/ Return(c)

\* One context issues IP commands and one-byte writes.
Next ==
    \/ \E c \in Ctx :
          \/ CallWriteEnable(c)
          \/ CallReadStatus(c)
          \/ CallReadId(c)
          \/ CallErase(c)
          \/ CallWaitOp(c)
          \/ CallIllegal(c)
          \/ CallWriteByte(c)
          \/ StoreByte(c)
          \/ AckWatermark(c)
          \/ CheckWip(c)
          \/ Step(c)
    \/ HwComplete

Spec == Init /\ [][Next]_vars

\* The steps context c takes by itself once it is inside a call: the
\* processor keeps executing the blocking code.
Run(c) ==
    \/ Step(c)
    \/ AckWatermark(c)
    \/ CheckWip(c)
    \/ StoreByte(c)

\* The engine under a processor that keeps running it; nothing is assumed of
\* the callers or of the controller.
SpecLive == Init /\ [][Next]_vars /\ \A c \in Ctx : WF_vars(Run(c))

\* One context issues IP commands to a controller that may fail them.
NextErr ==
    \/ \E c \in Ctx :
          \/ CallWriteEnable(c)
          \/ CallReadStatus(c)
          \/ CallErase(c)
          \/ AckWatermark(c)
          \/ CheckWip(c)
          \/ Step(c)
    \/ HwComplete
    \/ HwFail

\* The flash answers its first status read after an erase with WIP = 0.
InitErr == InitWith(1, {1})

SpecErr == InitErr /\ [][NextErr]_vars

\* Sizes of a command read within the watermark: a byte, a word, a byte more
\* than a word, the watermark.
ShortSizes == {1, 4, 5, RxWatermark}

CallReadIdShort(c) == \E size \in ShortSizes : Call(c, "read_id", 0, <<>>, size, 0)

\* The RAM command port on a controller whose LUT holds a read-id program.
InitFifo ==
    /\ variant = "Ram" /\ nctx = 1
    /\ wipPolls \in 1 .. MaxPolls
    /\ reg \in {ResetReg, UsedReg}
    /\ lut = RamLut
    /\ fifo = [fill |-> 0, rfdr |-> <<0, 0>>]
    /\ inflight = NoCmd
    /\ flash = [wip |-> 0]
    /\ mem = ErasedMem
    /\ cx = [c \in Ctx |-> IdleCx]
    /\ h = [lastWr |-> NoWrite, cur |-> NoBuild, rep |-> FALSE, rt |-> NoRt, calls |-> 0]
    /\ cfg = NoCfg

\* Command reads of the RAM command port, with the commands around them.
NextFifo ==
    \/ \E c \in Ctx :
          \/ CallReadIdShort(c)
          \/ CallReadStatus(c)
          \/ CallWriteEnable(c)
          \/ CallErase(c)
          \/ AckWatermark(c)
          \/ Step(c)
    \/ HwComplete

SpecFifo == InitFifo /\ [][NextFifo]_vars

\* Sizes of a command read above the watermark: a byte more than one
\* watermark, two watermarks, a byte more, three watermarks.
LongSizes == {RxWatermark + 1, 2 * RxWatermark, 2 * RxWatermark + 1, MaxIdBytes}

CallReadIdLong(c) == \E size \in LongSizes : Call(c, "read_id", 0, <<>>, size, 0)

\* The RAM command port on a controller whose LUT holds the long read-id
\* program.
InitDrain ==
    /\ variant = "Ram" /\ nctx = 1
    /\ wipPolls \in 1 .. MaxPolls
    /\ reg \in {ResetReg, UsedReg}
    /\ lut = LongIdLut
    /\ fifo = [fill |-> 0, rfdr |-> <<0, 0>>]
    /\ inflight = NoCmd
    /\ flash = [wip |-> 0]
    /\ mem = ErasedMem
    /\ cx = [c \in Ctx |-> IdleCx]
    /\ h = [lastWr |-> NoWrite, cur |-> NoBuild, rep |-> FALSE, rt |-> NoRt, calls |-> 0]
    /\ cfg = NoCfg

\* Long command reads of the RAM command port, with the commands around them.
NextDrain ==
    \/ \E c \in Ctx :
          \/ CallReadIdLong(c)
          \/ CallReadStatus(c)
          \/ CallWriteEnable(c)
          \/ DrainPass(c)
          \/ DrainAck(c)
          \/ AckWatermark(c)
          \/ Step(c)
    \/ HwComplete

SpecDrain == InitDrain /\ [][NextDrain]_vars

\* The index in FLSHCR2[0 .. 3] (A1, A2, B1, B2) of the flash-control-2
\* register of a port and device instance.
BankIndex(port, inst) == (IF port = "A" THEN 0 ELSE 2) + inst

\* The memory-window write of a controller bound to any port and device
\* instance: flash_port and device_instance of the data port.
InitBank ==
    /\ variant \in {"Xip", "Storage"} /\ nctx = 1
    /\ wipPolls \in 1 .. MaxPolls
    /\ \E used \in BOOLEAN :
          /\ reg = IF used THEN UsedReg ELSE ResetReg
          /\ lut = IF used THEN StaleLut ELSE ProgrammedLut
    /\ fifo = [fill |-> 0, rfdr |-> <<0, 0>>]
    /\ inflight = NoCmd
    /\ flash = [wip |-> 0]
    /\ mem = ErasedMem
    /\ cx = [c \in Ctx |-> IdleCx]
    /\ h = [lastWr |-> NoWrite, cur |-> NoBuild, rep |-> FALSE, rt |-> NoRt, calls |-> 0]
    /\ \E port \in Ports, inst \in {0, 1} :
          cfg = [NoCfg EXCEPT !.port = port, !.inst = inst]

NextBank ==
    \/ \E c \in Ctx :
          \/ CallWrite(c)
          \/ StoreByte(c)
          \/ CheckWip(c)
          \/ Step(c)
    \/ HwComplete

SpecBank == InitBank /\ [][NextBank]_vars

\* FLSHCR2 of the bound bank as configure_flexspi_device leaves it for a
\* device configuration and a read sequence count of ard.
Flshcr2Configured(dev, ard) ==
    [Flshcr2Reset EXCEPT !.awrwaitunit = AwrWaitUnit(dev.ahb_write_wait_unit),
                         !.ardseqnum = IF ard > 0 THEN ard - 1 ELSE @,
                         !.ardseqid = IF ard > 0 THEN dev.ard_seq_index ELSE @]

\* IP commands are issued on a controller that configure_flexspi_device has
\* configured for the bound port and device instance.
InitAhb ==
    /\ variant \in Variants /\ nctx = 1
    /\ wipPolls = 1
    /\ lut = ProgrammedLut
    /\ fifo = [fill |-> 0, rfdr |-> <<0, 0>>]
    /\ inflight = NoCmd
    /\ flash = [wip |-> 0]
    /\ mem = ErasedMem
    /\ cx = [c \in Ctx |-> IdleCx]
    /\ h = [lastWr |-> NoWrite, cur |-> NoBuild, rep |-> FALSE, rt |-> NoRt, calls |-> 0]
    /\ \E port \in Ports, inst \in {0, 1}, dev \in DeviceConfigs, ard \in {0, 2} :
          /\ cfg = [NoCfg EXCEPT !.port = port, !.inst = inst, !.dev = dev, !.ard = ard]
          /\ reg = [ResetReg EXCEPT
                      !.FLSHCR2[BankIndex(port, inst)] = Flshcr2Configured(dev, ard)]

NextAhb ==
    \/ \E c \in Ctx :
          \/ CallWriteEnable(c)
          \/ CallReadStatus(c)
          \/ CallErase(c)
          \/ AckWatermark(c)
          \/ CheckWip(c)
          \/ Step(c)
    \/ HwComplete

SpecAhb == InitAhb /\ [][NextAhb]_vars

\* The byte slices handed to the page write of the RAM data port: a word,
\* sixteen to eighteen words, a hundred bytes and a whole page; byte k holds
\* k plus a seed, modulo 128.
PageLens == {4, 64, 67, 68, 72, 100, WRITE_SIZE}
PageBytes(len, seed) == [k \in 1 .. len |-> (k + seed) % 128]

\* The little-endian word write builds from bytes[i .. i + 3] (bytes[i] is the
\* element i + 1 of the sequence).
LeWord(bytes, i) ==
    bytes[i + 4] * 16777216 + bytes[i + 3] * 65536 + bytes[i + 2] * 256 + bytes[i + 1]

\* FlexSpiDataPort<Blocking, Ram>::write is called.
CallPageWrite(c) ==
    /\ c <= nctx
    /\ variant = "Ram"
    /\ Callable(c)
    /\ \E offset \in {0, WRITE_SIZE}, len \in PageLens, seed \in {0, 1} :
          cx' = [cx EXCEPT ![c] = [IdleCx EXCEPT !.op = "page_write", !.pc = "word",
                                                 !.addr = offset,
                                                 !.bytes = PageBytes(len, seed),
                                                 !.gate = cx[c].gate]]
    /\ UNCHANGED <<cfg, variant, nctx, wipPolls, reg, lut, fifo, inflight, flash, mem, h>>

\* The loop exit of write, tested after `i += 4`: `if i > (Self::WRITE_SIZE / 4)`.
LastWord(i) == i > WRITE_SIZE \div 4

\* One pass of the loop of write: the word is built from bytes[i + 3] down to
\* bytes[i] (an index at or beyond the length of the slice panics), stored
\* through ptr, and i and ptr move on by one word.
StoreWord(c) ==
    /\ cx[c].pc = "word"
    /\ LET i == 4 * cx[c].pass
           stored == [a |-> FLASH_BASE + cx[c].addr + i, w |-> LeWord(cx[c].bytes, i)]
       IN  cx' = [cx EXCEPT ![c] =
                    IF i + 3 >= Len(cx[c].bytes) THEN [cx[c] EXCEPT !.pc = "panicked"]
                    ELSE [cx[c] EXCEPT !.data = Append(@, stored),
                                       !.pass = @ + 1,
                                       !.pc = IF LastWord(i + 4)
                                              THEN "done" ELSE "word"]]
    /\ h' = [h EXCEPT !.rt = [addr |-> cx[c].addr, bytes |-> cx[c].bytes]]
    /\ UNCHANGED <<cfg, variant, nctx, wipPolls, reg, lut, fifo, inflight, flash, mem>>

\* Page writes through the RAM data port.
InitPage ==
    /\ variant = "Ram" /\ nctx = 1 /\ wipPolls = 1
    /\ reg = ResetReg /\ lut = ProgrammedLut
    /\ fifo = [fill |-> 0, rfdr |-> <<0, 0>>]
    /\ inflight = NoCmd /\ flash = [wip |-> 0] /\ mem = ErasedMem
    /\ cx = [c \in Ctx |-> IdleCx]
    /\ h = [lastWr |-> NoWrite, cur |-> NoBuild, rep |-> FALSE, rt |-> NoRt, calls |-> 0]
    /\ cfg = NoCfg

NextPage ==
    \E c \in Ctx :
        \/ CallPageWrite(c)
        \/ StoreWord(c)
        \/ Return(c)

SpecPage == InitPage /\ [][NextPage]_vars

\* The memory-window path: write, read and erase through one context.
NextData ==
    \/ \E c \in Ctx :
          \/ CallWrite(c)
          \/ CallRead(c)
          \/ CallErase(c)
          \/ StoreByte(c)
          \/ LoadByte(c)
          \/ CheckWip(c)
          \/ Step(c)
    \/ HwComplete

SpecData == Init /\ [][NextData]_vars

\* Two contexts on one controller.
NextConc ==
    \/ \E c \in Ctx :
          \/ CallWriteEnable(c)
          \/ CallReadStatus(c)
          \/ AckWatermark(c)
          \/ Step(c)
    \/ HwComplete

SpecConc == InitConc /\ [][NextConc]_vars

\* ------------------------------------------------ configuration port steps
\* The transfer engine while the configuration port is at work.
EngineAtRest ==
    /\ variant = "Ram" /\ nctx = 1 /\ wipPolls = 1
    /\ reg = ResetReg /\ lut = ProgrammedLut
    /\ fifo = [fill |-> 0, rfdr |-> <<0, 0>>]
    /\ inflight = NoCmd /\ flash = [wip |-> 0] /\ mem = ErasedMem
    /\ cx = [c \in Ctx |-> IdleCx]
    /\ h = [lastWr |-> NoWrite, cur |-> NoBuild, rep |-> FALSE, rt |-> NoRt, calls |-> 0]

\* calc_dll_value is called with every configuration.
InitDll ==
    /\ EngineAtRest
    /\ \E mode \in Modes, sck2 \in BOOLEAN, clk \in RootClks, dvt \in 0 .. U8Max :
          cfg = CfgRec("dll", "A", 0, mode, sck2, clk, dvt, 0, 1, 1)

CalcDllValue ==
    /\ cfg.pc = "dll"
    /\ cfg' = [cfg EXCEPT !.pc = "dll_done",
                          !.dll_val = calc_dll_value(cfg.mode, cfg.sck2, cfg.clk, cfg.dvt)]
    /\ UNCHANGED engineVars

NextDll == CalcDllValue

SpecDll == InitDll /\ [][NextDll]_vars

\* configure_flexspi_device is called on a port, with the status bits as the
\* controller happens to report them.
InitCfg ==
    /\ EngineAtRest
    /\ \E port \in Ports, inst \in {0, 1}, mode \in Modes, sck2 \in BOOLEAN,
          clk \in {48000000, 200000000}, ard \in {0, 1, 2}, arb \in {0, 1}, seq \in {0, 1},
          dev \in DeviceConfigs, used \in BOOLEAN :
          cfg = [CfgRec("arbidle", port, inst, mode, sck2, clk, 2, ard, arb, seq)
                    EXCEPT !.dev = dev,
                           !.ctl = IF used THEN [CtlUsed EXCEPT !.MCR0.mdis = 1]
                                   ELSE CtlReset]

\* while arbidle clear || seqidle clear {}: the left operand.
ReadArbIdle ==
    /\ cfg.pc = "arbidle"
    /\ cfg.sts0.arbidle = 1
    /\ cfg' = [cfg EXCEPT !.pc = "seqidle", !.obsArb = TRUE]
    /\ UNCHANGED engineVars

\* while arbidle clear || seqidle clear {}: the right operand.
ReadSeqIdle ==
    /\ cfg.pc = "seqidle"
    /\ cfg' = IF cfg.sts0.seqidle = 1
              THEN [cfg EXCEPT !.pc = "calc", !.obsSeq = TRUE]
              ELSE [cfg EXCEPT !.pc = "arbidle"]
    /\ UNCHANGED engineVars

\* let dll_val = Self::calc_dll_value(..)
ConfigCalc ==
    /\ cfg.pc = "calc"
    /\ cfg' = [cfg EXCEPT !.pc = "write",
                          !.dll_val = calc_dll_value(cfg.mode, cfg.sck2, cfg.clk, cfg.dvt),
                          !.todo = DeviceWrites(cfg.port, cfg.inst, cfg.ard)]
    /\ UNCHANGED engineVars

\* The next register write of configure_flexspi_device.
ConfigWrite ==
    /\ cfg.pc = "write"
    /\ cfg.todo # <<>>
    /\ LET w == Head(cfg.todo)
       IN  cfg' = [cfg EXCEPT !.todo = Tail(@),
                              !.log = Append(@, w),
                              !.ctl = ApplyCtl(@, DeviceWrite(cfg, w)),
                              !.pc = IF Len(cfg.todo) = 1 THEN "slvlock" ELSE "write"]
    /\ UNCHANGED engineVars

\* while slvlock clear && reflock clear {}: the left operand.
ReadSlvLock ==
    /\ cfg.pc = "slvlock"
    /\ cfg' = IF cfg.sts2.slv[cfg.port] = 1 THEN [cfg EXCEPT !.pc = "nop"]
              ELSE [cfg EXCEPT !.pc = "reflock"]
    /\ UNCHANGED engineVars

\* while slvlock clear && reflock clear {}: the right operand.
ReadRefLock ==
    /\ cfg.pc = "reflock"
    /\ cfg' = IF cfg.sts2.ref[cfg.port] = 1 THEN [cfg EXCEPT !.pc = "nop"]
              ELSE [cfg EXCEPT !.pc = "slvlock"]
    /\ UNCHANGED engineVars

\* for i in 0..100 { asm::nop() }, then the return.
NopDelay ==
    /\ cfg.pc = "nop"
    /\ cfg' = [cfg EXCEPT !.pc = "done"]
    /\ UNCHANGED engineVars

\* The controller's arbitrator or sequencer changes between busy and idle.
HwIdleChange ==
    /\ cfg.pc \in {"arbidle", "seqidle"}
    /\ \/ cfg' = [cfg EXCEPT !.sts0.arbidle = 1 - @]
       \/ cfg' = [cfg EXCEPT !.sts0.seqidle = 1 - @]
    /\ UNCHANGED engineVars

\* With the module enabled, a DLL of a port reaches slave-delay lock or
\* reference lock.
HwDllLock ==
    /\ cfg.pc \notin {"off", "dll", "dll_done"}
    /\ cfg.ctl.MCR0.mdis = 0
    /\ \E p \in Ports :
          \/ cfg.sts2.slv[p] = 0 /\ cfg' = [cfg EXCEPT !.sts2.slv[p] = 1]
          \/ cfg.sts2.ref[p] = 0 /\ cfg' = [cfg EXCEPT !.sts2.ref[p] = 1]
    /\ UNCHANGED engineVars

NextCfg ==
    \/ ReadArbIdle
    \/ ReadSeqIdle
    \/ ConfigCalc
    \/ ConfigWrite
    \/ ReadSlvLock
    \/ ReadRefLock
    \/ NopDelay
    \/ HwIdleChange
    \/ HwDllLock

SpecCfg == InitCfg /\ [][NextCfg]_vars

\* configure_flexspi is called with a configuration, on a controller that is
\* fresh from reset or was in use.
InitFlex ==
    /\ variant \in {"Ram", "Storage"} /\ nctx = 1 /\ wipPolls = 1
    /\ lut = ProgrammedLut
    /\ fifo = [fill |-> 0, rfdr |-> <<0, 0>>]
    /\ inflight = NoCmd /\ flash = [wip |-> 0] /\ mem = ErasedMem
    /\ cx = [c \in Ctx |-> IdleCx]
    /\ h = [lastWr |-> NoWrite, cur |-> NoBuild, rep |-> FALSE, rt |-> NoRt, calls |-> 0]
    /\ \E config \in FlexspiConfigs, port \in Ports, inst \in {0, 1}, used \in BOOLEAN :
          /\ reg = IF used THEN UsedReg ELSE ResetReg
          /\ cfg = [CfgRec("flex_reset", port, inst, config.rx_sample_clock, FALSE,
                           0, 0, 0, 1, 1)
                       EXCEPT !.conf = config,
                              !.ctl = IF used THEN CtlUsed ELSE CtlReset]

\* enable_and_reset::<peripherals::FLEXSPI>(): the peripheral reset puts the
\* controller registers at their reset values.
FlexReset ==
    /\ cfg.pc = "flex_reset"
    /\ cfg' = [cfg EXCEPT !.pc = "flex_pre", !.ctl = CtlReset, !.todo = FlexResetWrites]
    /\ reg' = ResetReg
    /\ UNCHANGED <<variant, nctx, wipPolls, lut, fifo, inflight, flash, mem, cx, h>>

\* The next access of configure_flexspi to a configuration register.
FlexWrite ==
    /\ cfg.pc \in {"flex_pre", "flex_write"}
    /\ cfg.todo # <<>>
    /\ LET w == Head(cfg.todo)
       IN  cfg' = [cfg EXCEPT !.todo = Tail(@),
                              !.ctl = ApplyCtl(@, w),
                              !.hot = IF cfg.ctl.MCR0.mdis = 0 THEN @ \cup {w.r} ELSE @,
                              !.pc = IF Len(cfg.todo) > 1 THEN @
                                     ELSE IF cfg.pc = "flex_pre" THEN "swreset"
                                     ELSE "rxwmrk"]
    /\ UNCHANGED engineVars

\* while regs.mcr0().read().swreset().bit_is_set() {}
ReadSwReset ==
    /\ cfg.pc = "swreset"
    /\ cfg.ctl.MCR0.swreset = 0
    /\ cfg' = [cfg EXCEPT !.pc = "flex_write",
                          !.todo = StopModule \o FlexWrites(cfg.conf, cfg.port, cfg.inst)]
    /\ UNCHANGED engineVars

\* The controller finishes its software reset and clears the bit.
HwSwResetDone ==
    /\ cfg.ctl.MCR0.swreset = 1
    /\ cfg' = [cfg EXCEPT !.ctl.MCR0.swreset = 0]
    /\ UNCHANGED engineVars

\* regs.iprxfcr().modify(|_, w| w.rxwmrk().bits(0))
FlexRxWatermark ==
    /\ cfg.pc = "rxwmrk"
    /\ reg' = [reg EXCEPT !.IPRXFCR.rxwmrk = 0]
    /\ cfg' = [cfg EXCEPT !.pc = "txwmrk",
                          !.hot = IF cfg.ctl.MCR0.mdis = 0 THEN @ \cup {"IPRXFCR"} ELSE @]
    /\ UNCHANGED <<variant, nctx, wipPolls, lut, fifo, inflight, flash, mem, cx, h>>

\* regs.iptxfcr().modify(|_, w| w.txwmrk().bits(0)), then the return.
FlexTxWatermark ==
    /\ cfg.pc = "txwmrk"
    /\ reg' = [reg EXCEPT !.IPTXFCR.txwmrk = 0]
    /\ cfg' = [cfg EXCEPT !.pc = "flex_done",
                          !.hot = IF cfg.ctl.MCR0.mdis = 0 THEN @ \cup {"IPTXFCR"} ELSE @]
    /\ UNCHANGED <<variant, nctx, wipPolls, lut, fifo, inflight, flash, mem, cx, h>>

NextFlex ==
    \/ FlexReset
    \/ FlexWrite
    \/ ReadSwReset
    \/ HwSwResetDone
    \/ FlexRxWatermark
    \/ FlexTxWatermark

SpecFlex == InitFlex /\ [][NextFlex]_vars

\* The configurations of the bring-up: the sample clock with all flags of a
\* configuration set or all clear.
BringUpConfigs == {FlexspiConfig(mode, b, b, b, b) : mode \in Modes, b \in BOOLEAN}

\* The bring-up starts with configure_flexspi, on a controller that is fresh
\* from reset or was in use.
InitBringUp ==
    /\ EngineAtRest
    /\ \E config \in BringUpConfigs, port \in Ports, inst \in {0, 1}, used \in BOOLEAN :
          cfg = [CfgRec("flex_reset", port, inst, config.rx_sample_clock, FALSE,
                        0, 0, 0, 1, 1)
                    EXCEPT !.conf = config,
                           !.ctl = IF used THEN CtlUsed ELSE CtlReset]

\* configure_flexspi has returned and the caller goes on with
\* configure_flexspi_device(&flash_config, &flexspi_config).
CallConfigureDevice ==
    /\ cfg.pc = "flex_done"
    /\ \E ard \in {0, 1}, dev \in DeviceConfigs :
          cfg' = [cfg EXCEPT !.pc = "arbidle", !.clk = 200000000, !.dvt = 2,
                             !.ard = ard, !.dev = dev]
    /\ UNCHANGED engineVars

\* configure_flexspi, then configure_flexspi_device, on one configuration port.
NextBringUp ==
    \/ NextFlex
    \/ CallConfigureDevice
    \/ NextCfg

SpecBringUp == InitBringUp /\ [][NextBringUp]_vars

\* describe is called on an error value, by a user of either driver.
InitDesc ==
    /\ variant \in Variants /\ nctx = 1 /\ wipPolls = 1
    /\ reg = ResetReg /\ lut = ProgrammedLut
    /\ fifo = [fill |-> 0, rfdr |-> <<0, 0>>]
    /\ inflight = NoCmd /\ flash = [wip |-> 0] /\ mem = ErasedMem
    /\ cx = [c \in Ctx |-> IdleCx]
    /\ h = [lastWr |-> NoWrite, cur |-> NoBuild, rep |-> FALSE, rt |-> NoRt, calls |-> 0]
    /\ \E e \in FlexSpiErrors :
          cfg = [CfgRec("describe", "A", 0, "LoopbackInternally", FALSE, 0, 0, 0, 1, 1)
                    EXCEPT !.err = e]

Describe ==
    /\ cfg.pc = "describe"
    /\ cfg' = [cfg EXCEPT !.pc = "described", !.text = describe(cfg.err)]
    /\ UNCHANGED engineVars

NextDesc == Describe

SpecDesc == InitDesc /\ [][NextDesc]_vars

\* ================================================================ properties
SetupEnded(c) == cx[c].pc \in {"trigger", "store"}

\* C1: with one execution context, each operation run to its return before
\* the next starts, the engine writes no register while an IP command it
\* triggered is still in flight (so at most one command is ever in flight).
C1_NoWriteInFlight == nctx = 1 => ~h.lastWr.busy

\* C2: the engine has no internal lock: an idle context can start an
\* operation whatever the other context is doing, also between the other
\* context's trigger and the completion of its command.
C2_NoInternalLock ==
    \A c \in 1 .. nctx :
        (cx[c].pc = "idle" /\ h.calls < MaxCalls) => ENABLED CallWriteEnable(c)

\* C2: one context has written an engine register while the other context is
\* polling for the completion of the command it triggered.
C2_InterleavedWrite ==
    /\ h.lastWr.busy
    /\ h.lastWr.ctx # h.lastWr.owner
    /\ h.lastWr.r \in {"LUT", "IPCR0", "IPCR1", "IPRXFCR", "IPTXFCR", "IPCMD"}
    /\ inflight # NoCmd
    /\ cx[inflight.owner].pc = "poll"
    /\ reg.INTR.ipcmddone = 0

\* C3: once an erase has triggered the erase-sector command, the engine is
\* still inside that erase, issuing nothing but erase-sector and read-status,
\* until a status read has returned WIP = 0.
C3_EraseGated ==
    \A c \in Ctx :
        cx[c].gate =>
            /\ cx[c].op = "erase"
            /\ cx[c].pc \notin {"done", "idle"}
            /\ cx[c].cmd \in {"EraseSector", "ReadStatusRegister"}

\* C4: a completion wait that returns has read N >= 1 status values, WIP = 1
\* in the first N-1 and WIP = 0 in the N-th, and has issued exactly N
\* read-status commands.
C4_ExactlyNPolls ==
    \A c \in Ctx :
        (PollsWip(variant, cx[c].op) /\ cx[c].pc = "done") =>
            LET n == Len(cx[c].obs) IN
            /\ n >= 1
            /\ cx[c].nstat = n
            /\ \A k \in 1 .. n : (cx[c].obs[k] % 2 = 0) <=> (k = n)

\* C4: an erase has returned after a status read with WIP = 1 and a second
\* one with WIP = 0.
C4_PolledTwice ==
    \E c \in Ctx :
        /\ cx[c].op = "erase" /\ cx[c].pc = "done"
        /\ Len(cx[c].obs) >= 2 /\ cx[c].obs[1] % 2 = 1

C6_RoundTrip ==
    \A c \in Ctx :
        (/\ cx[c].op = "read" /\ cx[c].pc = "done"
         /\ h.rt.bytes # <<>>
         /\ h.rt.addr = cx[c].addr
         /\ Len(cx[c].buf) = Len(h.rt.bytes)) => cx[c].buf = h.rt.bytes

\* C7: when the program of a command is built again right after a build of
\* the same command, the LUT store holds after the second build the words it
\* held after the first.
C7_BuildDeterministic ==
    [][\A c \in Ctx :
          (/\ cx[c].pc = "setup" /\ Len(cx[c].todo) = 1
           /\ cx'[c].pc # "setup"
           /\ h.cur.cmd = cx[c].cmd) => lut' = h.cur.lut]_vars

\* C7: a command has been built twice in a row, the first time over stale
\* LUT contents.
C7_BuiltTwice ==
    \E c \in Ctx :
        /\ SetupEnded(c) /\ h.rep /\ cx[c].written # {}
        /\ \E i \in LutIdx : lut[i] = StaleWord

\* C8: the setup of a command changes no LUT word of the slot that CmdIdx
\* assigns to another command.
C8_SlotIsolation ==
    \A c \in Ctx :
        SetupEnded(c) =>
            \A b \in Cmds \ {cx[c].cmd} :
                \A i \in SlotIdx(CmdIdx(b)) : lut[i] = cx[c].lut0[i]

\* C9: a setup that stores into a LUT slot stores all four words of it, so
\* no word of the slot keeps its earlier value, and the words after the
\* first zero word are zero.
C9_FullSlotOverwrite ==
    \A c \in Ctx :
        SetupEnded(c) =>
            \A s \in Slots :
                (cx[c].written \cap SlotIdx(s) # {}) =>
                    /\ SlotIdx(s) \subseteq cx[c].written
                    /\ \A i \in SlotIdx(s) : lut[i] # StaleWord
                    /\ \A i \in SlotIdx(s) \ {s * LUT_NUM_REG_PER_SEQ + 3} :
                          lut[i] = ZeroWord => lut[i + 1] = ZeroWord

\* C9: a setup has stored a program into a slot that held stale words.
C9_BuiltOverStale ==
    \E c \in Ctx :
        /\ SetupEnded(c) /\ cx[c].written # {}
        /\ \A i \in cx[c].written : cx[c].lut0[i] = StaleWord

\* C10: every store into a LUT word finds the LUT unlocked (key written and
\* LUTCR holding the unlock value).
C10_LutUnlockedAtWrite == h.lastWr.r = "LUT" => h.lastWr.unlocked

\* C11: when the trigger bit is about to be written, the setup of the command
\* has set the clear-instruction-pointer bit of all four flash-control-2
\* registers (A1, A2, B1, B2).
C11_AllPointersCleared ==
    \A c \in Ctx :
        cx[c].pc = "trigger" =>
            \A i \in 0 .. 3 : <<"FLSHCR2", "clrinstrptr", i>> \in cx[c].hits

\* C12: when the trigger bit is about to be written, the setup of the command
\* has stored all four LUT words of the slot that IPCR1 selects.
C12_LutRewritten ==
    \A c \in Ctx :
        cx[c].pc = "trigger" =>
            /\ reg.IPCR1 \in Slots
            /\ SlotIdx(reg.IPCR1) \subseteq cx[c].written

\* C13: a command goes through setup, trigger, completion poll and drain in
\* that order: no trigger before the last setup write, one trigger per
\* command, no RX FIFO read before the command-done bit was seen set, and a
\* command with data returns only after its drain.
C13_PhaseOrder ==
    \A c \in Ctx :
        cx[c].cmd \in IpCmds =>
            /\ cx[c].pc = "setup" => (cx[c].trig = 0 /\ ~cx[c].seen /\ ~cx[c].drained)
            /\ cx[c].pc = "trigger" =>
                  (cx[c].todo = <<>> /\ cx[c].trig = 0 /\ ~cx[c].seen /\ ~cx[c].drained)
            /\ cx[c].pc = "poll" => (cx[c].trig = 1 /\ ~cx[c].seen /\ ~cx[c].drained)
            /\ cx[c].pc = "fifo_wait" => (cx[c].trig = 1 /\ cx[c].seen /\ ~cx[c].drained)
            /\ cx[c].drained => (cx[c].trig = 1 /\ cx[c].seen)
            /\ cx[c].pc = "done" =>
                  /\ cx[c].trig = 1 /\ cx[c].seen
                  /\ cx[c].cmd \in {"ReadStatusRegister", "ReadId"} => cx[c].drained

\* C13: a read-status command has run through all its phases and is about
\* to return with the status it drained.
C13_StatusDrained ==
    \E c \in Ctx :
        /\ cx[c].pc = "done" /\ cx[c].cmd = "ReadStatusRegister"
        /\ cx[c].drained /\ cx[c].buf # <<>>

\* C14: when the trigger bit is about to be written, RX and TX DMA are
\* disabled, both FIFO clear bits were written by the setup, and both
\* watermark fields hold (byte watermark / 8) - 1.
C14_FifoStateAtTrigger ==
    \A c \in Ctx :
        cx[c].pc = "trigger" =>
            /\ reg.IPRXFCR.rxdmaen = 0
            /\ reg.IPTXFCR.txdmaen = 0
            /\ <<"IPRXFCR", "clriprxf", 0>> \in cx[c].hits
            /\ <<"IPTXFCR", "clriptxf", 0>> \in cx[c].hits
            /\ reg.IPRXFCR.rxwmrk = (RxWatermark \div 8) - 1
            /\ reg.IPTXFCR.txwmrk = (TxWatermark \div 8) - 1

\* What the formulas below expect of the slow external-strobe branch:
\* 0x100 | ((raw & 0x78) << 9) with raw = ceil(data_valid_time * 1000 / 75).
ExpectedOverride(dvt) ==
    LET raw == (dvt * 1000 + 74) \div 75
    IN  256 + (((raw \div 8) % 16) * 8) * 512

DllDone(mode) == cfg.pc = "dll_done" /\ cfg.mode = mode

\* C15: calc_dll_value returns 0x100 in each of the three loopback sampling
\* modes, whatever the root clock, the data-valid time and the SCK2 flag.
C15_LoopbackFixedDelay ==
    (cfg.pc = "dll_done" /\ cfg.mode # "ExternalInputFromDqsPad") => cfg.dll_val = 256

\* C15: calc_dll_value has returned for loopback from the SCK pad with a slow
\* root clock and SCK2 disabled.
C15_LoopbackCalculated ==
    /\ DllDone("LoopbackFromSckPad")
    /\ ~cfg.sck2 /\ cfg.clk = 48000000 /\ cfg.dvt = 2 /\ cfg.dll_val = 256

C19_BothLocksSet ==
    cfg.pc \in {"nop", "done"} =>
        (cfg.sts2.slv[cfg.port] = 1 /\ cfg.sts2.ref[cfg.port] = 1)

\* C20: configure_flexspi_device writes no register before it has seen
\* arbitration idle and sequence idle set; the DLL value, write mask, flash
\* size, chip-select timing and AHB read-sequence writes come before the
\* write that clears the module-disable bit, which is the last write; the
\* DLL-lock wait starts only after that write.
C20_ConfigOrder ==
    cfg.pc \notin {"off", "dll", "dll_done"} =>
        LET n == Len(cfg.log)
            Before(k, r, f) == \E j \in 1 .. k - 1 : cfg.log[j] = CW(r, f)
        IN  /\ n > 0 => (cfg.obsArb /\ cfg.obsSeq)
            /\ \A k \in 1 .. n :
                  cfg.log[k].r = "MCR0" =>
                      /\ k = n
                      /\ Before(k, "DLLCR", cfg.port)
                      /\ Before(k, "FLSHCR4", "wmopt1")
                      /\ Before(k, "FLSHCR0", "flshsz")
                      /\ Before(k, "FLSHCR1", "cs")
                      /\ cfg.ard > 0 => Before(k, "FLSHCR2", "ardseq")
            /\ cfg.pc \in {"slvlock", "reflock", "nop", "done"} =>
                  (cfg.ctl.MCR0.mdis = 0 /\ n > 0 /\ cfg.log[n].r = "MCR0")

\* C20: configure_flexspi_device has returned after all its writes, the AHB
\* read-sequence write among them.
C20_Configured ==
    /\ cfg.pc = "done" /\ cfg.ard > 0 /\ cfg.ctl.MCR0.mdis = 0
    /\ Len(cfg.log) = Len(DeviceWrites(cfg.port, cfg.inst, cfg.ard))

\* configure_flexspi has returned.
FlexDone == cfg.pc = "flex_done"

\* C21: after configure_flexspi(config) returns, each of the eight AHB
\* read-buffer control registers holds the requesting-master id, buffer size,
\* read priority and prefetch enable of config.ahb_config.buffer[i].
C21_BuffersFromConfig ==
    FlexDone =>
        \A i \in Buffers :
            LET b == cfg.conf.ahb_config.buffer[i]
            IN  cfg.ctl.AHBRXBUFCR0[i] =
                    [mstrid |-> b.master_index, prefetchen |-> Bit(b.enable_prefetch),
                     bufsz |-> b.buffer_size, priority |-> b.priority]

\* C22: after configure_flexspi(config) returns, bus timeout, sequence
\* timeout, resume-wait cycles, same-configuration flag, differential-clock
\* option, auto-clear option, alignment relaxation, prefetch, bufferable
\* write and cacheable read hold the values given in config.
C22_PolicyFromConfig ==
    FlexDone =>
        LET c == cfg.conf
            a == cfg.conf.ahb_config
        IN  /\ cfg.ctl.MCR1 = [ahbbuswait |-> a.ahb_bus_timeout_cycle,
                               seqwait |-> c.seq_timeout_cycle]
            /\ cfg.ctl.MCR2 = [samedeviceen |-> Bit(c.enable_same_config_for_all),
                               resumewait |-> a.resume_wait_cycle,
                               sckbdiffopt |-> Bit(c.enable_sck_b_diff_opt),
                               clrahbbufopt |-> Bit(a.enable_clear_ahb_buffer_opt)]
            /\ cfg.ctl.AHBCR = [readaddropt |-> Bit(a.enable_read_address_opt),
                                prefetchen |-> Bit(a.enable_ahb_prefetch),
                                bufferableen |-> Bit(a.enable_ahb_bufferable),
                                cachableen |-> Bit(a.enable_ahb_cachable)]

\* C23: inside configure_flexspi no write to module control 1/2, AHB control
\* or an AHB read-buffer register happens with the module-disable bit clear,
\* and the module-disable bit is set when configure_flexspi returns.
C23_WrittenWhileStopped ==
    /\ cfg.hot \cap {"MCR1", "MCR2", "AHBCR", "AHBRXBUFCR0"} = {}
    /\ FlexDone => cfg.ctl.MCR0.mdis = 1

\* C23: configure_flexspi has returned with every one of its register writes
\* made, after it had enabled the module for the software reset.
C23_ConfiguredStopped ==
    /\ FlexDone /\ cfg.ctl.MCR0.mdis = 1
    /\ "MCR0" \in cfg.hot
    /\ cfg.ctl.AHBRXBUFCR0[7].bufsz = 256

\* C24: configure_flexspi_device changes the flash-control registers of the
\* bound (port, device instance) bank only and the DLL control register of
\* the bound port only; with ard_seq_number = 0 it leaves the read-sequence
\* fields alone, and when it returns the bound bank holds the configured flash
\* size, chip-select timing, column-address size, word-addressing flag and
\* write-wait unit, the bound port's DLL register holds the DLL value, and for
\* ard_seq_number > 0 the stored count is ard_seq_number - 1.
C24_BoundBankOnly ==
    [][cfg.pc \in {"arbidle", "seqidle", "calc", "write", "slvlock", "reflock", "nop"} =>
        LET bound == <<cfg.port, cfg.inst>>
            d == cfg.dev
        IN  /\ \A b \in Banks \ {bound} :
                  /\ cfg'.ctl.FLSHCR0[b] = cfg.ctl.FLSHCR0[b]
                  /\ cfg'.ctl.FLSHCR1[b] = cfg.ctl.FLSHCR1[b]
                  /\ cfg'.ctl.FLSHCR2[b] = cfg.ctl.FLSHCR2[b]
            /\ \A p \in Ports \ {cfg.port} : cfg'.ctl.DLLCR[p] = cfg.ctl.DLLCR[p]
            /\ cfg.ard = 0 =>
                  /\ cfg'.ctl.FLSHCR2[bound].ardseqnum = cfg.ctl.FLSHCR2[bound].ardseqnum
                  /\ cfg'.ctl.FLSHCR2[bound].ardseqid = cfg.ctl.FLSHCR2[bound].ardseqid
            /\ cfg'.pc = "done" =>
                  /\ cfg'.ctl.FLSHCR0[bound].flshsz = d.flash_size_kb
                  /\ cfg'.ctl.FLSHCR1[bound] =
                        [csinterval |-> d.cs_interval, tcsh |-> d.cs_hold_time,
                         tcss |-> d.cs_setup_time, cas |-> d.columnspace,
                         wa |-> Bit(d.enable_word_address),
                         csintervalunit |-> CsIntervalUnit(d.cs_interval_unit)]
                  /\ cfg'.ctl.FLSHCR2[bound].awrwaitunit = AwrWaitUnit(d.ahb_write_wait_unit)
                  /\ cfg'.ctl.DLLCR[cfg.port].bits =
                        calc_dll_value(cfg.mode, cfg.sck2, cfg.clk, cfg.dvt)
                  /\ cfg.ard > 0 =>
                        /\ cfg'.ctl.FLSHCR2[bound].ardseqnum = cfg.ard - 1
                        /\ cfg'.ctl.FLSHCR2[bound].ardseqid = d.ard_seq_index]_vars

\* C24: configure_flexspi_device has returned for port B, device instance 1
\* with two AHB read sequences, the other banks and port A's DLL still as
\* the earlier owner left them.
C24_SecondDeviceConfigured ==
    /\ cfg.pc = "done" /\ cfg.port = "B" /\ cfg.inst = 1 /\ cfg.ard = 2
    /\ cfg.dev = FlexspiDeviceConfig(TRUE)
    /\ cfg.ctl.FLSHCR2[<<"B", 1>>].ardseqnum = 1
    /\ cfg.ctl.FLSHCR0[<<"B", 1>>].flshsz = 8192
    /\ cfg.ctl.FLSHCR0[<<"B", 0>>] = CtlUsed.FLSHCR0[<<"B", 0>>]
    /\ cfg.ctl.DLLCR["A"] = CtlUsed.DLLCR["A"]

\* FlexSpiError of the kind that belongs to an INTR error bit, with the
\* IP-command path flag set.
IpError(bit) ==
    [kind |-> CASE bit = "ipcmdge" -> "CmdGrantErr"
                [] bit = "ipcmderr" -> "CmdCheckErr"
                [] bit = "seqtimeout" -> "CmdExecErr",
     AhbReadCmdErr |-> FALSE, AhbWriteCmdErr |-> FALSE, IpCmdErr |-> TRUE]

\* C25: when INTR reports a grant timeout, a check error or an execution
\* timeout for a command an operation issued, the operation ends with the
\* error of that kind with the IP-command flag set, not with success.
C25_ErrorSurfaced ==
    \A c \in Ctx :
        (cx[c].pc = "done" /\ cx[c].fail # "none") =>
            OpResult(cx[c]) = IpError(cx[c].fail)

\* The "Unknown ..." text of each kind that has one.
UnknownText(kind) ==
    CASE kind = "CmdGrantErr" -> "Unknown Flash command grant error"
      [] kind = "CmdCheckErr" -> "Unknown Flash command check error"
      [] kind = "CmdExecErr" -> "Unknown Flash command execution error"
      [] kind = "AhbBusTimeout" -> "Unknown AHB bus timeout error"

\* C26: describe returns a text for every error value; it is the kind's
\* "Unknown ..." text exactly when no path flag of the value is set; with a
\* flag set the text is the kind's cause for the first set flag in the order
\* read, write, IP for a grant error and write, read, IP for a check or an
\* execution error; DataLearningFailed gives "Data learning failed".
C26_DescribeByPriority ==
    cfg.pc = "described" =>
        LET e == cfg.err
            rd == e.AhbReadCmdErr
            wr == e.AhbWriteCmdErr
            ip == e.IpCmdErr
            t == cfg.text
        IN  /\ t # ""
            /\ e.kind = "DataLearningFailed" => t = "Data learning failed"
            /\ e.kind # "DataLearningFailed" =>
                  /\ (t = UnknownText(e.kind)) <=> ~(rd \/ wr \/ ip)
                  /\ t \notin {UnknownText(k) : k \in (ErrKinds \cup {"AhbBusTimeout"}) \ {e.kind}}
            /\ e.kind = "CmdGrantErr" =>
                  /\ rd => t = GrantCause(TRUE, FALSE, FALSE)
                  /\ (~rd /\ wr) => t = GrantCause(FALSE, TRUE, FALSE)
                  /\ (~rd /\ ~wr /\ ip) => t = GrantCause(FALSE, FALSE, TRUE)
            /\ e.kind = "CmdCheckErr" =>
                  /\ wr => t = CheckCause(FALSE, TRUE, FALSE)
                  /\ (~wr /\ rd) => t = CheckCause(TRUE, FALSE, FALSE)
                  /\ (~wr /\ ~rd /\ ip) => t = CheckCause(FALSE, FALSE, TRUE)
            /\ e.kind = "CmdExecErr" =>
                  /\ wr => t = ExecCause(FALSE, TRUE, FALSE)
                  /\ (~wr /\ rd) => t = ExecCause(TRUE, FALSE, FALSE)
                  /\ (~wr /\ ~rd /\ ip) => t = ExecCause(FALSE, FALSE, TRUE)

\* C26: describe has answered a grant error with the read and the write
\* flag both set.
C26_DescribedBothFlags ==
    /\ cfg.pc = "described"
    /\ cfg.err = FlexSpiError("CmdGrantErr", TRUE, TRUE, FALSE)
    /\ cfg.text = "AHB bus error response for Read Command. Command grant timeout"

\* C27: data-port erase (RAM and XIP) and the RAM command port's write, read
\* and capacity abort: the call writes no controller register, no LUT word
\* and nothing in the memory window, starts no command, and never goes on to
\* a setup, a transfer or a return.
C27_IllegalOpsAbort ==
    [][\A c \in Ctx :
          /\ cx'[c].op \in {"dp_erase", "cp_write", "cp_read", "cp_capacity"} =>
                cx'[c].pc = "panicked"
          /\ (cx'[c].pc = "panicked" /\ cx[c].pc # "panicked") =>
                /\ reg' = reg /\ lut' = lut /\ mem' = mem
                /\ fifo' = fifo /\ inflight' = inflight /\ flash' = flash
          /\ cx[c].pc = "panicked" => cx'[c] = cx[c]]_vars

\* C27: the RAM command port's write was called after an earlier command
\* had completed, and has panicked.
C27_CommandPortWritePanicked ==
    \E c \in Ctx :
        /\ variant = "Ram" /\ cx[c].op = "cp_write" /\ cx[c].pc = "panicked"
        /\ reg.INTR.ipcmddone = 1

\* The controller keeps its promises to context c: a completion poll does
\* not wait for ever on a clear command-done bit, a FIFO read does not wait
\* for ever on a fill level that never comes, and the flash is idle again
\* and again.
HardwareResponds(c) ==
    /\ []<>~(cx[c].pc = "poll" /\ reg.INTR.ipcmddone = 0)
    /\ []<>~(cx[c].pc = "fifo_wait" /\ fifo.fill * 8 < cx[c].size)
    /\ []<>(flash.wip = 0)

\* Context c is inside write_enable, read_status_register, read_id, erase
\* or write.
InEngineOp(c) ==
    /\ cx[c].op \in {"write_enable", "read_status", "read_id", "erase", "write"}
    /\ cx[c].pc \notin {"idle", "done"}

\* C28: if the controller eventually sets the command-done bit, eventually
\* reports the requested RX FIFO fill level and the flash eventually reports
\* WIP = 0, every write_enable, read_status_register, read_id, erase and
\* write eventually returns; and while the command-done bit reads 0 an
\* operation in its completion poll stays there: it makes no register write
\* and neither aborts nor returns.
C28_ReturnsIffHardwareResponds ==
    /\ \A c \in Ctx : HardwareResponds(c) => (InEngineOp(c) ~> cx[c].pc = "done")
    /\ [][\A c \in Ctx :
            (cx[c].pc = "poll" /\ reg.INTR.ipcmddone = 0) =>
                (cx'[c] = cx[c] /\ h'.lastWr = h.lastWr)]_vars

\* C28: FlexspiStorage::write has returned after a status read that still
\* reported the flash busy.
C28_WriteReturnedAfterBusy ==
    \E c \in Ctx :
        /\ variant = "Storage" /\ cx[c].op = "write" /\ cx[c].pc = "done"
        /\ Len(cx[c].obs) >= 2 /\ cx[c].obs[1] % 2 = 1

\* C29: a write(offset, bytes) of the execute-in-place data port and of
\* FlexspiStorage makes its store only after its setup has written the four
\* words of the page-program slot (slot 12) and has selected that slot as the
\* AHB write sequence; the store puts bytes[0] at the offset and changes
\* nothing else in the memory window, and the call changes the memory window
\* in no other step; FlexspiStorage::write returns only after a status read
\* with WIP = 0.
C29_OneByteAfterSetup ==
    [][\A c \in Ctx :
          /\ (cx[c].op = "write" /\ cx[c].pc = "store") =>
                /\ cx[c].written = SlotIdx(CmdIdx("PageProgram"))
                /\ SlotProg(CmdIdx("PageProgram")) = LutProgram(variant, "PageProgram")
                /\ <<"FLSHCR2", "awrseqid", 2>> \in cx[c].hits
                /\ reg.FLSHCR2[2].awrseqid = CmdIdx("PageProgram")
                /\ mem' = [mem EXCEPT ![cx[c].addr] = cx[c].bytes[1]]
          /\ (cx[c].op = "write" /\ cx[c].pc \notin {"store", "done"}) => mem' = mem
          /\ (cx'[c].op = "write" /\ cx'[c].pc = "done" /\ variant = "Storage") =>
                /\ cx'[c].obs # <<>>
                /\ cx'[c].obs[Len(cx'[c].obs)] = 0]_vars

\* C29: the execute-in-place write of a two-byte slice has returned with
\* bytes[0] in the memory window at the offset and the next byte of the
\* window still erased.
C29_TwoByteSliceWritten ==
    \E c \in Ctx :
        /\ variant = "Xip" /\ cx[c].op = "write" /\ cx[c].pc = "done"
        /\ cx[c].addr = 0 /\ Len(cx[c].bytes) = 2
        /\ mem[0] = cx[c].bytes[1] /\ mem[1] = 0

\* C30: for a command read of size s with 1 <= s <= watermark the RAM command
\* port's read_cmd_data reads no FIFO word before FILL * 8 >= s, then reads
\* one word when s <= 4 and two when s > 4, then clears the watermark-reached
\* bit by write-one, and returns after that one pass.
C30_ShortReadOnePass ==
    [][\A c \in Ctx :
          (variant = "Ram" /\ cx[c].size >= 1 /\ cx[c].size <= RxWatermark) =>
              /\ (cx[c].pc = "fifo_wait" /\ cx'[c].pc # "fifo_wait") =>
                    /\ fifo.fill * 8 >= cx[c].size
                    /\ cx'[c].pc = "fifo_ack"
                    /\ Len(cx'[c].buf) = IF cx[c].size <= 4 THEN 1 ELSE 2
                    /\ \A k \in 1 .. Len(cx'[c].buf) : cx'[c].buf[k] = fifo.rfdr[k]
              /\ (cx[c].pc \in {"setup", "trigger", "poll", "fifo_wait"}
                    /\ cx'[c].pc \in {"setup", "trigger", "poll", "fifo_wait"}) =>
                    cx'[c].buf = cx[c].buf
              /\ (cx[c].pc = "fifo_ack" /\ cx'[c].pc # "fifo_ack") =>
                    /\ cx'[c].pc = "done"
                    /\ cx'[c].buf = cx[c].buf
                    /\ h'.lastWr.r = "INTR"
                    /\ reg'.INTR.iprxwa = 0]_vars

\* C30: read_id(5) of the RAM command port has returned with the two FIFO
\* words the device delivered.
C30_FiveBytesTwoWords ==
    \E c \in Ctx :
        /\ variant = "Ram" /\ cx[c].op = "read_id" /\ cx[c].size = 5
        /\ cx[c].pc = "done" /\ cx[c].buf = IdWord

\* C31: for a command read of size s above the watermark w, each pass of the
\* drain loop of read_cmd_data waits for the watermark-reached bit, reads one
\* watermark of FIFO words (w / 4), acknowledges the bit and takes w off the
\* remaining size; the read returns after ceil(s / w) passes.
C31_DrainByWatermark ==
    [][\A c \in Ctx :
          (variant = "Ram" /\ cx[c].op = "read_id" /\ cx[c].req > RxWatermark) =>
              /\ (cx[c].pc = "fifo_wait" /\ cx[c].size > RxWatermark
                    /\ cx'[c].pc # "fifo_wait") =>
                    /\ reg.INTR.iprxwa = 1
                    /\ cx'[c].pc = "drain_ack"
                    /\ Len(cx'[c].buf) = RxWatermark \div 4
              /\ (cx[c].pc = "drain_ack" /\ cx'[c].pc # "drain_ack") =>
                    /\ h'.lastWr.r = "INTR"
                    /\ cx'[c].size = cx[c].size - RxWatermark
                    /\ cx'[c].size > 0 /\ cx'[c].pc = "fifo_wait"
              /\ (cx[c].pc # "done" /\ cx'[c].pc = "done") =>
                    cx'[c].pass = (cx[c].req + RxWatermark - 1) \div RxWatermark]_vars

\* C36: when a command read of size s above the watermark has returned, the
\* output array holds the first ceil(s / 4) FIFO words in arrival order: the
\* k-th pass stored its words behind those of the passes before it.
C36_OutputInArrivalOrder ==
    \A c \in Ctx :
        (variant = "Ram" /\ cx[c].op = "read_id" /\ cx[c].pc = "done"
            /\ cx[c].req > RxWatermark) =>
            /\ Len(cx[c].data) >= (cx[c].req + 3) \div 4
            /\ \A k \in 1 .. (cx[c].req + 3) \div 4 : cx[c].data[k] = IdAnswer(MaxIdBytes)[k]

\* C32: when the trigger bit is about to be written, the sequence id that the
\* setup selected in IPCR1 is the slot CmdIdx assigns to the command, and the
\* LUT words the setup stored are words of that slot.
C32_SeqIdFromCmdIdx ==
    \A c \in Ctx :
        cx[c].pc = "trigger" =>
            /\ reg.IPCR1 = CmdIdx(cx[c].cmd)
            /\ cx[c].written \subseteq SlotIdx(reg.IPCR1)

\* C33: erase(from, to) triggers its one erase-sector command, before any
\* status read of the call, with IPCR0 holding from; write-enable, read-status
\* and read-id are triggered with IPCR0 holding 0.
C33_EraseAddressAtTrigger ==
    \A c \in Ctx :
        cx[c].pc = "trigger" =>
            /\ cx[c].cmd = "EraseSector" =>
                  /\ cx[c].op = "erase" /\ cx[c].nstat = 0 /\ cx[c].trig = 0
                  /\ reg.IPCR0 = cx[c].addr
            /\ cx[c].cmd # "EraseSector" => reg.IPCR0 = 0

\* C34: when the memory-window write is about to store, its setup has put the
\* AHB write sequence id into the flash-control-2 register of the port and
\* device instance the controller is bound to, and no step of that setup
\* changes the flash-control-2 register of another bank.
C34_WriteSequenceInBoundBank ==
    [][\A c \in Ctx :
          /\ (cx[c].op = "write" /\ cx[c].pc = "store") =>
                reg.FLSHCR2[BankIndex(cfg.port, cfg.inst)].awrseqid = CmdIdx("PageProgram")
          /\ (cx[c].op = "write" /\ cx[c].cmd = "PageProgram" /\ cx[c].pc = "setup") =>
                \A i \in 0 .. 3 :
                    i # BankIndex(cfg.port, cfg.inst) => reg'.FLSHCR2[i] = reg.FLSHCR2[i]]_vars

\* C35: the completion poll of a command is left only once the controller has
\* finished that command: a command-done bit left set by an earlier command
\* does not end the poll while the command is in flight.
C35_PollEndsOnOwnCompletion ==
    [][\A c \in Ctx :
          (cx[c].pc = "poll" /\ cx'[c].pc # "poll") => inflight.owner # c]_vars

\* C37: after configure_flexspi(config) and then configure_flexspi_device
\* have returned, the sample clock source, doze enable, free-running clock
\* enable and half-speed enable of module control 0 hold the values of config:
\* enabling the module changed the module-disable bit only.
C37_ModuleControlKept ==
    cfg.pc = "done" =>
        /\ cfg.ctl.MCR0.mdis = 0
        /\ cfg.ctl.MCR0.rxclksrc = RxClkSrc(cfg.conf.rx_sample_clock)
        /\ cfg.ctl.MCR0.dozeen = Bit(cfg.conf.enable_doze)
        /\ cfg.ctl.MCR0.sckfreerunen = Bit(cfg.conf.enable_sck_free_running)
        /\ cfg.ctl.MCR0.hsen = Bit(cfg.conf.enable_half_speed_access)

\* C38: after configure_flexspi(config) returns, the sample clock source in
\* module control 0 is the value of the configured mode and of no other mode:
\* the four modes are programmed as four distinct clock sources.
C38_ClockSourcePerMode ==
    FlexDone =>
        \A mode \in Modes :
            cfg.ctl.MCR0.rxclksrc = RxClkSrc(mode) <=> mode = cfg.conf.rx_sample_clock

\* C39: no step of an IP command setup changes the AHB write or read sequence
\* id, the read sequence count or the write-wait unit of any of the four
\* flash-control-2 registers; the setup changes their clear-instruction-pointer
\* bit only.
C39_AhbFieldsKept ==
    [][\A c \in Ctx :
          (cx[c].pc = "setup" /\ cx[c].cmd \in IpCmds) =>
              \A i \in 0 .. 3 :
                  reg'.FLSHCR2[i] = [reg.FLSHCR2[i] EXCEPT
                                       !.clrinstrptr = reg'.FLSHCR2[i].clrinstrptr]]_vars

\* C40: the RAM data port's write never indexes its slice at or beyond the
\* length of the slice, and when a write of WRITE_SIZE bytes has returned it
\* has stored every byte once: WRITE_SIZE / 4 little-endian words, word k at
\* the word address 0x08000000 + offset + 4 * k.
C40_WholePageStored ==
    \A c \in Ctx :
        cx[c].op = "page_write" =>
            /\ cx[c].pc # "panicked"
            /\ (cx[c].pc = "done" /\ Len(cx[c].bytes) = WRITE_SIZE) =>
                  /\ Len(cx[c].data) = WRITE_SIZE \div 4
                  /\ \A k \in 1 .. Len(cx[c].data) :
                        cx[c].data[k] = [a |-> FLASH_BASE + cx[c].addr + 4 * (k - 1),
                                         w |-> LeWord(cx[c].bytes, 4 * (k - 1))]
====
